---- MODULE Spec2Model ----
(***************************************************************************)
(* A model of the real-time voice agent (phaseoptics/ai_caller_local_llm). *)
(*                                                                         *)
(* The specifications of this module share its variables:                  *)
(*   SpecAsr    - chunk emission, the ASR worker and the phrase assembler  *)
(*                (twilio_stream_handler.receiver_loop, whisper_handler,   *)
(*                data_types);                                             *)
(*   SpecDialog - the Dialog Manager: handle_phrase, generate_llm_response *)
(*                and _trim_history (conversation_manager,                 *)
(*                llm_local_handler);                                      *)
(*   SpecPlayer - the Player, the barge-in detector and the session        *)
(*                teardown (twilio_stream_handler.media_stream);           *)
(*   SpecPacing - one call of _player_stream_frames on a millisecond       *)
(*                clock;                                                   *)
(*   SpecCall   - a whole call: receiver, Player, the silence watchdog of  *)
(*                main.run_server and the clock of queues.py;              *)
(*                SpecCallLive adds the fairness of the event loop and     *)
(*                SpecNoLimit starts with MAX_SILENCE_SECONDS <= 0.        *)
(*   SpecVad    - the receiver with its voice-activity detector and the    *)
(*                malformed events it may be sent;                         *)
(*   SpecSendLock - the receiver and the Player sending on the socket      *)
(*                under the send lock of the session;                      *)
(*   SpecPhraseText - one call of PhraseObject.phrase_text;                *)
(*   SpecPostprocess - _postprocess_speech_style applied once and twice;   *)
(*   SpecSegment - the voice-activity detector on quiet and speech frames  *)
(*                alone, over longer runs of frames;                       *)
(*   SpecNoMedia - a call on which no media event arrives;                 *)
(*   SpecTts    - one call of elevenlabs_handler.stream_tts_ulaw_frames;   *)
(*   SpecReminder - the watchdog polling at every sleep while the caller   *)
(*                speaks now and then.                                     *)
(* A specification leaves the variables of the others unchanged.           *)
(***************************************************************************)
EXTENDS Integers, Sequences, FiniteSets, TLC

\* ------------------------------------------------------------------------
\* Bounds of the model (not program constants)
\* ------------------------------------------------------------------------
MaxChunks == 3
MaxPhrases == 2
MaxRedeliver == 1

None == "None"

VARIABLES
    \* ---- the watchdog's sleep and the reminders (analysis) ----
    wd_polled,            \* the watchdog has run its loop body since the clock last moved
    reminded_since_speech,\* analysis: a reminder was enqueued since the last caller speech
    \* ---- one call of stream_tts_ulaw_frames ----
    tts_stream,           \* the chunks the vendor stream has still to deliver
    tts_prod_pc,          \* the _producer thread: "run" or "done"
    tts_callbacks,        \* callbacks scheduled on the loop, in order
    tts_q,                \* q, the asyncio.Queue(maxsize=512)
    tts_buf,              \* buf of the consumer
    tts_pc,               \* the consumer: "get", "yield" or "done"
    tts_frames,           \* the frames yielded so far
    tts_accepted,         \* analysis: the bytes put into q, in order
    tts_dropped,          \* analysis: number of chunks dropped
    \* ---- analysis of the inbound frames (not program state) ----
    quiet_run,            \* consecutive sub-threshold frames since the last speech
                          \* frame, up to DONE_SPEAKING_MS
    long_runs,            \* runs that reached the limit since the last speech
                          \* frame of the last emitted chunk
    runs_at_open,         \* long_runs at the first speech frame of the chunk
    reset_since,          \* a barge-in reset since the last emitted chunk
    reset_at_open,        \* reset_since at the first speech frame of the chunk
    chunk_gap,            \* per emitted chunk: [runs, reset] before it
    loud_run,             \* consecutive loud frames received during loud_job (0 after it)
    loud_job,             \* the job playing during loud_run, or 0
    \* ---- the send lock of a session and the outbound side of the socket ----
    send_lock,            \* asyncio.Lock: [locked, waiters (tasks, in order)]
    send_holder,          \* the task inside "async with send_lock", or None
    snd_pc,               \* per task: "idle", "wait", "woken", "send", "done"
    snd_kind,             \* per task: the event it is sending
    ws_sent,              \* the events put on the socket, in order
    dummy_frames,         \* number of dummy frames sent (line 463)
    \* ---- _postprocess_speech_style applied twice ----
    pp_text,              \* the reply of the LLM, as a sequence of characters
    pp_pc,                \* "in", "once", "twice" or "idle"
    pp_once,              \* _postprocess_speech_style(text)
    pp_twice,             \* the same function applied to pp_once
    \* ---- one call of PhraseObject.phrase_text ----
    pt_chunks,            \* self.chunks, in the order they were appended
    pt_pc,                \* "call" or "returned"
    pt_result,            \* the text returned
    \* ---- VAD state of media_stream (lines 264-273) ----
    in_chunk,
    has_spoken,
    silence_counter,
    phrase_silence_counter,
    active_pcm,           \* the frames of the chunk being formed, by level
    pre_chunk_pcm_buffer, \* the lead-in deque, in frames
    first_media_logged,
    chunk_audio,          \* analysis: audio_bytes of each emitted chunk, by level
    job_vad_resets,       \* analysis: VAD resets during the playback of each job
    \* ---- one run of _player_stream_frames on a millisecond clock ----
    mono_ms,              \* time.monotonic(), in milliseconds
    psf_pc,               \* position in _player_stream_frames
    psf_frames,           \* the frames handed to the function, in order
    psf_is_list,          \* TRUE for a list, FALSE for an async iterator
    psf_rest,             \* what the iteration has not yet produced
    psf_base,             \* base
    psf_i,                \* i
    psf_frame,            \* frame, the loop variable
    psf_from,             \* the clock when the send in progress was started
    psf_sent,             \* log of the sends: frame, start and end of the send
    psf_job_generation,   \* job_generation
    psf_completed,        \* the value returned
    \* ---- clock and silence accounting (queues.py, _mark_speech_now) ----
    now,                  \* time.monotonic(), in whole seconds
    last_speech_time,     \* twilio_stream_handler._last_speech_time
    playback_pause_accumulator, \* queues._playback_pause_accumulator
    playback_pause_start, \* queues._playback_pause_start (0 while not playing)
    call_ended,           \* twilio_stream_handler.call_ended
    \* ---- watchdog (main.run_server) ----
    MAX_SILENCE_SECONDS,  \* configuration
    wd_pc,                \* where run_server is: "poll", "wait", "stopped", "exited"
    last_reminder_effective_silence,
    goodbye_enqueued,
    wait_start,           \* wait_for_playback_completion.start
    goodbye_job,          \* analysis: id of the goodbye prompt (0: none enqueued)
    wait_timed_out,       \* analysis: wait_for_playback_completion returned False
    transcript_file,      \* content of transcript.txt
    \* ---- Player, barge-in detector, session ----
    PLAYBACK_CLEAR_AFTER_END, \* configuration flag
    stream_sid,           \* media_stream.stream_sid (None until the start event)
    generation,           \* media_stream.generation
    player_queue,         \* media_stream.player_queue
    barge_in_event,       \* asyncio.Event
    playback_active,      \* asyncio.Event
    shutdown_event,       \* asyncio.Event
    assistant_playing,    \* queues.assistant_playing
    barge_in_hits,        \* receiver_loop.barge_in_hits
    recv_pc,              \* receiver: "run", "done" (returned), "closed" (media_stream ended)
    ply_pc,               \* where the Player task is (see PlayerSuspended)
    cur,                  \* player_loop.job, the job being handled
    frame_i,              \* _player_stream_frames.i
    frame_n,              \* number of frames the job's list or stream holds
    completed,            \* player_loop.completed
    next_id,              \* analysis: the id the next payload or job gets
    job_sent,             \* analysis: media frames sent per job id
    job_clears,           \* analysis: clear events sent per job id
    job_text,             \* analysis: the transcript text each job id was made with
    job_barge_at,         \* analysis: frames sent when barge-in was raised during the job (-1: never)
    job_result,           \* analysis: what became of each job id
    pending_at_barge,     \* analysis: ids waiting in a queue when a barge-in was raised
    \* ---- Dialog Manager ----
    USE_OPEN_WEBUI,       \* llm_local_handler configuration switch
    ELEVEN_STREAMING,     \* configuration: stream-backed (TRUE) or file-backed replies
    message_history,      \* conversation_manager.message_history
    dlg_pc,               \* "idle", "llm" (inside generate_llm_response) or "post"
    turns,                \* number of handle_phrase invocations started
    attempt,              \* generate_llm_response: the loop's attempt number
    llm_outcomes,         \* outcomes of this call's requests, in order
    llm_sleeps,           \* llm_sleeps[k]: milliseconds slept after request k, before the next one
    llm_result,           \* value returned by generate_llm_response
    last_turn,            \* how the last finished handle_phrase task ended
    llm_playback_queue,   \* queues.llm_playback_queue
    tts_requests_queue,   \* queues.tts_requests_queue
    transcript_lines,     \* transcript_manager._transcript_lines
    \* ---- ASR worker and phrase assembler ----
    phrase_id,            \* receiver_loop: the VAD's current phrase id (uuid4, here a fresh number)
    chunk_index,          \* receiver_loop: frame counter stamped on emitted chunks
    chunks,               \* every AudioChunk object created so far (by creation order)
    detected_phrases,     \* phrase_id -> PhraseObject [chunks, is_done]
    transcription_queue,  \* queue of AudioChunk references for the ASR worker
    processed_chunks,     \* whisper_transcription_loop: set of chunk_index already handled
    asr_pc,               \* "get" (awaiting transcription_queue.get) or "transcribe"
    asr_chunk,            \* the chunk the worker is transcribing (0: none)
    handle_phrase_tasks,  \* phrase ids for which create_task(handle_phrase(..)) ran, in order
    redelivered           \* number of duplicate deliveries so far

asrVars == <<phrase_id, chunk_index, chunks, detected_phrases, transcription_queue,
             processed_chunks, asr_pc, asr_chunk, handle_phrase_tasks, redelivered>>

dlgVars == <<USE_OPEN_WEBUI, message_history, dlg_pc, turns, attempt, llm_outcomes,
             llm_sleeps, llm_result, last_turn>>

\* shared by the Dialog Manager and the Player
outVars == <<ELEVEN_STREAMING, llm_playback_queue, tts_requests_queue, transcript_lines>>

plyVars == <<PLAYBACK_CLEAR_AFTER_END, stream_sid, generation, player_queue,
             barge_in_event, playback_active, shutdown_event, assistant_playing,
             barge_in_hits, recv_pc, ply_pc, cur, frame_i, frame_n, completed,
             next_id, job_sent, job_clears, job_barge_at, job_result,
             pending_at_barge, job_text>>

clkVars == <<now, last_speech_time, playback_pause_accumulator, playback_pause_start>>

wdVars == <<MAX_SILENCE_SECONDS, wd_pc, last_reminder_effective_silence,
            goodbye_enqueued, wait_start, goodbye_job, wait_timed_out,
            transcript_file>>

remVars == <<wd_polled, reminded_since_speech>>

ttsVars == <<tts_stream, tts_prod_pc, tts_callbacks, tts_q, tts_buf, tts_pc,
             tts_frames, tts_accepted, tts_dropped>>

segVars == <<quiet_run, long_runs, runs_at_open, reset_since, reset_at_open,
             chunk_gap, loud_run, loud_job>>

lockVars == <<send_lock, send_holder, snd_pc, snd_kind, ws_sent>>

dummyVars == <<dummy_frames>>

ppVars == <<pp_text, pp_pc, pp_once, pp_twice>>

ptVars == <<pt_chunks, pt_pc, pt_result>>

vadVars == <<in_chunk, has_spoken, silence_counter, phrase_silence_counter,
             active_pcm, pre_chunk_pcm_buffer, first_media_logged, chunk_audio,
             job_vad_resets>>

psfVars == <<mono_ms, psf_pc, psf_frames, psf_is_list, psf_rest, psf_base, psf_i,
             psf_frame, psf_from, psf_sent, psf_job_generation, psf_completed>>
vars == <<asrVars, dlgVars, outVars, plyVars, clkVars, call_ended, wdVars, psfVars,
          vadVars, ptVars, ppVars,
          lockVars, dummyVars, segVars, ttsVars, remVars>>

\* ------------------------------------------------------------------------
\* data_types.py
\* ------------------------------------------------------------------------
AudioChunk(pid, idx) ==
    [phrase_id |-> pid, chunk_index |-> idx, transcription |-> "",
     is_transcribed |-> FALSE]

PhraseObject(cs) == [chunks |-> cs, is_done |-> FALSE]

\* PhraseObject.is_complete: all(chunk.is_transcribed for chunk in self.chunks)
is_complete(phrase, store) ==
    \A k \in 1..Len(phrase.chunks) : store[phrase.chunks[k]].is_transcribed

\* ------------------------------------------------------------------------
\* receiver_loop: chunk emission (the frame that closes a chunk)
\* ------------------------------------------------------------------------
AsrInit0 ==
    /\ phrase_id = 1
    /\ chunk_index = 0
    /\ chunks = <<>>
    /\ detected_phrases = <<>>
    /\ transcription_queue = <<>>
    /\ processed_chunks = {}
    /\ asr_pc = "get"
    /\ asr_chunk = 0
    /\ handle_phrase_tasks = <<>>
    /\ redelivered = 0

\* The set of phrase ids present in the detected_phrases dict.
PhraseIds == DOMAIN detected_phrases

\* detected_phrases[phrase_id].chunks.append(chunk_obj), creating the entry if absent
AddToPhrase(dp, pid, c) ==
    IF pid \in DOMAIN dp
    THEN [dp EXCEPT ![pid].chunks = Append(@, c)]
    ELSE [p \in (DOMAIN dp) \cup {pid} |->
            IF p = pid THEN PhraseObject(<<c>>) ELSE dp[p]]

\* receiver_loop, lines 570-593: a chunk closes, is queued for the ASR worker
\* and appended to its PhraseObject.  chunk_index is the frame counter, so it
\* grows with every frame; only the chunk-closing frames are represented here.
VadEmitChunk ==
    /\ Len(chunks) < MaxChunks
    /\ LET c == Len(chunks) + 1 IN
        /\ chunks' = Append(chunks, AudioChunk(phrase_id, chunk_index))
        /\ transcription_queue' = Append(transcription_queue, c)
        /\ detected_phrases' = AddToPhrase(detected_phrases, phrase_id, c)
    /\ chunk_index' = chunk_index + 1
    /\ UNCHANGED <<phrase_id, processed_chunks, asr_pc, asr_chunk,
                   handle_phrase_tasks, redelivered>>
    /\ UNCHANGED <<dlgVars, outVars, plyVars, clkVars, call_ended, wdVars>>
    /\ UNCHANGED psfVars
    /\ UNCHANGED vadVars
    /\ UNCHANGED ptVars
    /\ UNCHANGED ppVars
    /\ UNCHANGED lockVars
    /\ UNCHANGED dummyVars
    /\ UNCHANGED segVars
    /\ UNCHANGED ttsVars
    /\ UNCHANGED remVars

\* receiver_loop, lines 545-547 and 596-602 (and _reset_vad_state_for_new_phrase):
\* a long silence or a barge-in rotates phrase_id to a fresh uuid.
VadNewPhrase ==
    /\ phrase_id < MaxPhrases
    /\ phrase_id' = phrase_id + 1
    /\ UNCHANGED <<chunk_index, chunks, detected_phrases, transcription_queue,
                   processed_chunks, asr_pc, asr_chunk, handle_phrase_tasks,
                   redelivered>>
    /\ UNCHANGED <<dlgVars, outVars, plyVars, clkVars, call_ended, wdVars>>
    /\ UNCHANGED psfVars
    /\ UNCHANGED vadVars
    /\ UNCHANGED ptVars
    /\ UNCHANGED ppVars
    /\ UNCHANGED lockVars
    /\ UNCHANGED dummyVars
    /\ UNCHANGED segVars
    /\ UNCHANGED ttsVars
    /\ UNCHANGED remVars

\* The environment puts an AudioChunk that was already queued on the
\* transcription queue once more (the duplicate the worker's guard is for).
Redeliver ==
    /\ redelivered < MaxRedeliver
    /\ \E c \in 1..Len(chunks) :
         transcription_queue' = Append(transcription_queue, c)
    /\ redelivered' = redelivered + 1
    /\ UNCHANGED <<phrase_id, chunk_index, chunks, detected_phrases,
                   processed_chunks, asr_pc, asr_chunk, handle_phrase_tasks>>
    /\ UNCHANGED <<dlgVars, outVars, plyVars, clkVars, call_ended, wdVars>>
    /\ UNCHANGED psfVars
    /\ UNCHANGED vadVars
    /\ UNCHANGED ptVars
    /\ UNCHANGED ppVars
    /\ UNCHANGED lockVars
    /\ UNCHANGED dummyVars
    /\ UNCHANGED segVars
    /\ UNCHANGED ttsVars
    /\ UNCHANGED remVars

\* ------------------------------------------------------------------------
\* whisper_handler.whisper_transcription_loop
\* ------------------------------------------------------------------------
\* line 190: "Skip if already handled"
AlreadyHandled(c) ==
    \/ chunks[c].transcription # ""
    \/ chunks[c].chunk_index \in processed_chunks

\* lines 187-194: take a chunk; skip it, or start transcribing it (the await of
\* transcribe_audio suspends the worker).
AsrGet ==
    /\ asr_pc = "get"
    /\ transcription_queue # <<>>
    /\ LET c == Head(transcription_queue) IN
        /\ transcription_queue' = Tail(transcription_queue)
        /\ IF AlreadyHandled(c)
           THEN UNCHANGED <<asr_pc, asr_chunk>>
           ELSE asr_pc' = "transcribe" /\ asr_chunk' = c
    /\ UNCHANGED <<phrase_id, chunk_index, chunks, detected_phrases,
                   processed_chunks, handle_phrase_tasks, redelivered>>
    /\ UNCHANGED <<dlgVars, outVars, plyVars, clkVars, call_ended, wdVars>>
    /\ UNCHANGED psfVars
    /\ UNCHANGED vadVars
    /\ UNCHANGED ptVars
    /\ UNCHANGED ppVars
    /\ UNCHANGED lockVars
    /\ UNCHANGED dummyVars
    /\ UNCHANGED segVars
    /\ UNCHANGED ttsVars
    /\ UNCHANGED remVars

\* lines 199-201: what the worker writes to the chunk object once the engine
\* has answered.  Only transcription is assigned; is_transcribed is not.
ChunkAfterAsr(chunk, transcript) ==
    [chunk EXCEPT !.transcription = transcript]

\* line 233: phrase and phrase.is_complete() and not phrase.is_done
ShouldHandOff(dp, pid, store) ==
    /\ pid \in DOMAIN dp
    /\ is_complete(dp[pid], store)
    /\ ~dp[pid].is_done

\* lines 194-235: the engine answered with text, or with "" (empty result, or a
\* failure that _transcribe_local/_transcribe_api turned into "").
AsrFinish ==
    /\ asr_pc = "transcribe"
    /\ \E transcript \in {"", "text"} :
        LET c == asr_chunk
            pid == chunks[c].phrase_id
        IN
        /\ chunks' = [chunks EXCEPT ![c] = ChunkAfterAsr(@, transcript)]
        /\ processed_chunks' = processed_chunks \cup {chunks[c].chunk_index}
        /\ IF ShouldHandOff(detected_phrases, pid, chunks')
           THEN /\ detected_phrases' = [detected_phrases EXCEPT ![pid].is_done = TRUE]
                /\ handle_phrase_tasks' = Append(handle_phrase_tasks, pid)
           ELSE UNCHANGED <<detected_phrases, handle_phrase_tasks>>
    /\ asr_pc' = "get"
    /\ asr_chunk' = 0
    /\ UNCHANGED <<phrase_id, chunk_index, transcription_queue, redelivered>>
    /\ UNCHANGED <<dlgVars, outVars, plyVars, clkVars, call_ended, wdVars>>
    /\ UNCHANGED psfVars
    /\ UNCHANGED vadVars
    /\ UNCHANGED ptVars
    /\ UNCHANGED ppVars
    /\ UNCHANGED lockVars
    /\ UNCHANGED dummyVars
    /\ UNCHANGED segVars
    /\ UNCHANGED ttsVars
    /\ UNCHANGED remVars

\* ------------------------------------------------------------------------
\* transcript_manager.append_transcript_line
\* ------------------------------------------------------------------------
\* A text is None, "" or a non-blank string.  Every text the program passes is
\* already stripped (the LLM reply by _postprocess_speech_style, the static
\* prompts by their literals), so str(text).strip() leaves it as it is.
IsBlank(text) == text = None \/ text = ""

\* lines 16-22: nothing is appended for None or blank text.  suffix is "" or
\* " [interrupted]" (the caller formats f"{text} [interrupted]"); job is the
\* job the line was written for (0 for a Caller line), kept for the analysis.
append_transcript_line(lines, role, text, suffix, job) ==
    IF IsBlank(text)
    THEN lines
    ELSE Append(lines, [role |-> role, text |-> text, suffix |-> suffix, job |-> job])

\* ------------------------------------------------------------------------
\* llm_local_handler
\* ------------------------------------------------------------------------
MAX_TURNS == 3
MaxDialogTurns == 4

SystemMessage == [role |-> "system", content |-> "SYSTEM", turn |-> 0]

initialize_conversation == <<SystemMessage>>

ErrorPlaceholder == "[Error generating response]"

\* backoffs = [0.2, 0.6], in milliseconds
backoffs == <<200, 600>>

\* enumerate([None] + backoffs, start=1): the backoff paired with an attempt
BackoffOf(k) == IF k = 1 THEN 0 ELSE backoffs[k - 1]

LastAttempt == Len(backoffs) + 1

\* What the backend does with one request.
\*   "ok"        2xx with a well-formed body and some text
\*   "ok_empty"  2xx with a well-formed body whose content is empty
\*   "5xx"       a 5xx status
\*   "4xx"       a 4xx status (raise_for_status raises)
\*   "malformed" 2xx whose body is not the expected JSON (json()/KeyError raises)
\*   "connerr"   requests raises a connection error
\*   "timeout"   requests raises a timeout
LlmOutcomes == {"ok", "ok_empty", "5xx", "4xx", "malformed", "connerr", "timeout"}

IsException(o) == o \in {"4xx", "malformed", "connerr", "timeout"}

\* line 164: 500 <= resp.status_code < 600 and attempt <= len(backoffs) + 1
Is5xxRetry(o, k) == o = "5xx" /\ k <= Len(backoffs) + 1

\* line 185: if attempt <= len(backoffs) (inside except Exception)
ExceptionRetry(k) == k <= Len(backoffs)

\* One iteration of the for loop at lines 161-190 for attempt k with backend
\* outcome o: what the loop does next and how long it sleeps before that.
\*   next = "continue": go on to the next attempt (or leave the loop)
\*          "reply":    return reply, list(message_history)
\*          "error":    return the placeholder, list(message_history)
LoopIteration(k, o) ==
    IF Is5xxRetry(o, k)
    THEN [next |-> "continue", sleep |-> BackoffOf(k)]
    ELSE IF IsException(o) \/ o = "5xx"
         THEN IF ExceptionRetry(k)
              THEN [next |-> "continue", sleep |-> BackoffOf(k)]
              ELSE [next |-> "error", sleep |-> 0]
         ELSE [next |-> "reply", sleep |-> 0]

\* The legacy Ollama path, lines 194-222: one request, no retry.
OllamaIteration(o) ==
    IF o \in {"ok", "ok_empty"}
    THEN [next |-> "reply", sleep |-> 0]
    ELSE [next |-> "error", sleep |-> 0]

ReplyText(o) == IF o = "ok" THEN "reply" ELSE ""

\* ------------------------------------------------------------------------
\* conversation_manager
\* ------------------------------------------------------------------------
Max2(a, b) == IF a >= b THEN a ELSE b

\* Python's hist[-n:]
PyLastN(hist, n) ==
    IF n = 0 THEN hist ELSE SubSeq(hist, Max2(1, Len(hist) - n + 1), Len(hist))

\* _trim_history, lines 19-25
trim_history(hist, max_turns) ==
    IF hist = <<>>
    THEN hist
    ELSE LET system == SubSeq(hist, 1, 1)
             tail == IF Len(hist) > 1 THEN PyLastN(hist, max_turns * 2) ELSE <<>>
         IN system \o tail

\* The value of a call of generate_llm_response: None, or the pair
\* (response, history).
NoneResult == [is_none |-> TRUE, response |-> None, history |-> <<>>]
PairResult(r, h) == [is_none |-> FALSE, response |-> r, history |-> h]

\* How a handle_phrase task ended: raised (the task died with an exception) or
\* returned response; all_failed tells whether no request of the turn got a 2xx
\* well-formed answer.
TurnRecord(raised, response, outcomes) ==
    [raised |-> raised, response |-> response,
     all_failed |-> \A k \in 1..Len(outcomes) : outcomes[k] \notin {"ok", "ok_empty"}]

NoTurn == [raised |-> FALSE, response |-> None, all_failed |-> FALSE]

DlgInit0 ==
    /\ message_history = initialize_conversation
    /\ dlg_pc = "idle"
    /\ turns = 0
    /\ attempt = 0
    /\ llm_outcomes = <<>>
    /\ llm_sleeps = <<>>
    /\ llm_result = NoneResult
    /\ last_turn = NoTurn

OutInit0 ==
    /\ llm_playback_queue = <<>>
    /\ tts_requests_queue = <<>>
    /\ transcript_lines = <<>>

\* handle_phrase lines 29-34 and generate_llm_response lines 120-129: the Caller
\* line is appended, the history is checked for its system message and the user
\* prompt is appended to it (in place: the list passed is message_history).
HandlePhraseStart ==
    /\ dlg_pc = "idle"
    /\ turns < MaxDialogTurns
    /\ turns' = turns + 1
    /\ transcript_lines' =
          append_transcript_line(transcript_lines, "Caller", "phrase", "", 0)
    /\ LET h == IF message_history = <<>>
                THEN initialize_conversation
                ELSE IF message_history[1].role # "system"
                     THEN <<SystemMessage>> \o message_history
                     ELSE message_history
       IN message_history' =
             Append(h, [role |-> "user", content |-> "phrase", turn |-> turns'])
    /\ dlg_pc' = "llm"
    /\ attempt' = 1
    /\ llm_outcomes' = <<>>
    /\ llm_sleeps' = <<>>
    /\ llm_result' = NoneResult
    /\ UNCHANGED <<USE_OPEN_WEBUI, last_turn, ELEVEN_STREAMING, llm_playback_queue,
                   tts_requests_queue>>
    /\ UNCHANGED <<asrVars, plyVars, clkVars, call_ended, wdVars>>
    /\ UNCHANGED psfVars
    /\ UNCHANGED vadVars
    /\ UNCHANGED ptVars
    /\ UNCHANGED ppVars
    /\ UNCHANGED lockVars
    /\ UNCHANGED dummyVars
    /\ UNCHANGED segVars
    /\ UNCHANGED ttsVars
    /\ UNCHANGED remVars

\* generate_llm_response, one request and what the loop does with its outcome.
\* When the for loop runs out of attempts the function ends without a return
\* statement, and its value is None.
LlmAttempt ==
    /\ dlg_pc = "llm"
    /\ \E o \in LlmOutcomes :
        LET it == IF USE_OPEN_WEBUI THEN LoopIteration(attempt, o)
                                    ELSE OllamaIteration(o)
        IN
        /\ llm_outcomes' = Append(llm_outcomes, o)
        /\ llm_sleeps' = Append(llm_sleeps, it.sleep)
        /\ CASE it.next = "reply" ->
                  /\ message_history' =
                        Append(message_history,
                               [role |-> "assistant", content |-> ReplyText(o),
                                turn |-> turns])
                  /\ llm_result' = PairResult(ReplyText(o), message_history')
                  /\ dlg_pc' = "post"
                  /\ UNCHANGED attempt
             [] it.next = "error" ->
                  /\ llm_result' = PairResult(ErrorPlaceholder, message_history)
                  /\ dlg_pc' = "post"
                  /\ UNCHANGED <<message_history, attempt>>
             [] it.next = "continue" ->
                  IF attempt < LastAttempt
                  THEN /\ attempt' = attempt + 1
                       /\ UNCHANGED <<message_history, llm_result, dlg_pc>>
                  ELSE /\ llm_result' = NoneResult
                       /\ dlg_pc' = "post"
                       /\ UNCHANGED <<message_history, attempt>>
    /\ UNCHANGED <<USE_OPEN_WEBUI, turns, last_turn>>
    /\ UNCHANGED <<asrVars, outVars, plyVars, clkVars, call_ended, wdVars>>
    /\ UNCHANGED psfVars
    /\ UNCHANGED vadVars
    /\ UNCHANGED ptVars
    /\ UNCHANGED ppVars
    /\ UNCHANGED lockVars
    /\ UNCHANGED dummyVars
    /\ UNCHANGED segVars
    /\ UNCHANGED ttsVars
    /\ UNCHANGED remVars

\* The enriched payload handle_phrase puts on an external queue (lines 47-57):
\* {"text": response} or {"mp3_path": path, "text": response}.  id tells the
\* payloads apart in the analysis.
TtsPayload(id, text) == [shape |-> "dict", mp3_path |-> None, text |-> text, id |-> id]
Mp3Payload(id, text) == [shape |-> "dict", mp3_path |-> "reply.mp3", text |-> text, id |-> id]

\* handle_phrase lines 33-59: unpack the result (a TypeError when it is None,
\* which ends the task), store and trim the history, enqueue the reply.
HandlePhraseFinish ==
    /\ dlg_pc = "post"
    /\ dlg_pc' = "idle"
    /\ IF llm_result.is_none
       THEN /\ last_turn' = TurnRecord(TRUE, None, llm_outcomes)
            /\ UNCHANGED <<message_history, outVars>>
       ELSE /\ last_turn' = TurnRecord(FALSE, llm_result.response, llm_outcomes)
            /\ message_history' = trim_history(llm_result.history, MAX_TURNS)
            /\ IF ELEVEN_STREAMING
               THEN /\ tts_requests_queue' =
                          Append(tts_requests_queue, TtsPayload(turns, llm_result.response))
                    /\ UNCHANGED llm_playback_queue
               ELSE \E ok \in BOOLEAN :
                    /\ llm_playback_queue' =
                          IF ok THEN Append(llm_playback_queue,
                                            Mp3Payload(turns, llm_result.response))
                                ELSE llm_playback_queue
                    /\ UNCHANGED tts_requests_queue
            /\ UNCHANGED <<ELEVEN_STREAMING, transcript_lines>>
    /\ attempt' = 0
    /\ llm_outcomes' = <<>>
    /\ llm_sleeps' = <<>>
    /\ llm_result' = NoneResult
    /\ UNCHANGED <<USE_OPEN_WEBUI, turns>>
    /\ UNCHANGED <<asrVars, plyVars, clkVars, call_ended, wdVars>>
    /\ UNCHANGED psfVars
    /\ UNCHANGED vadVars
    /\ UNCHANGED ptVars
    /\ UNCHANGED ppVars
    /\ UNCHANGED lockVars
    /\ UNCHANGED dummyVars
    /\ UNCHANGED segVars
    /\ UNCHANGED ttsVars
    /\ UNCHANGED remVars

\* ------------------------------------------------------------------------
\* twilio_stream_handler.media_stream: the Player, the receiver, the teardown
\* ------------------------------------------------------------------------
MaxJobs == 2
MaxFrames == 2

\* BARGE_IN_CONSEC_FRAMES (default "2")
BARGE_IN_CONSEC_FRAMES == 2

JobIds == 1..MaxJobs

\* PlayerJob(kind, value, generation, transcript_text).  value (a path or the
\* text to synthesise) is left out: what it yields is chosen when the job is
\* played.  id is for the analysis.
PlayerJob(kind, gen, text, id) ==
    [kind |-> kind, generation |-> gen, transcript_text |-> text, id |-> id]

NoJob == [kind |-> None, generation |-> 0, transcript_text |-> None, id |-> 0]

\* main.run_server lines 85-97: the watchdog puts the bare path of a static
\* prompt on llm_playback_queue.
BarePath(id) == [shape |-> "str", mp3_path |-> "prompt.mp3", text |-> None, id |-> id]

\* _normalize_tts_item: the text of a payload, or None
normalize_tts_item(item) ==
    IF item.shape = "str" THEN item.mp3_path
    ELSE IF item.text # None /\ item.text # "" THEN item.text ELSE None

\* _normalize_mp3_item: (mp3_path, text)
normalize_mp3_item(item) ==
    IF item.shape = "str" THEN [mp3_path |-> item.mp3_path, text |-> None]
    ELSE [mp3_path |-> item.mp3_path,
          text |-> IF item.text # None /\ item.text # "" THEN item.text ELSE None]

\* The ids carried by a queue of payloads or jobs
RECURSIVE IdsOf(_)
IdsOf(q) == IF q = <<>> THEN {} ELSE {Head(q).id} \cup IdsOf(Tail(q))

\* receiver_loop lines 501-507: every queued TTS request becomes a "tts" job of
\* the current generation, unless its text normalises to None.
RECURSIVE TtsJobs(_, _)
TtsJobs(q, gen) ==
    IF q = <<>> THEN <<>>
    ELSE LET text == normalize_tts_item(Head(q)) IN
         (IF text # None THEN <<PlayerJob("tts", gen, text, Head(q).id)>> ELSE <<>>)
         \o TtsJobs(Tail(q), gen)

\* receiver_loop lines 509-515: every queued file payload with a path becomes an
\* "mp3" job of the current generation.
RECURSIVE Mp3Jobs(_, _)
Mp3Jobs(q, gen) ==
    IF q = <<>> THEN <<>>
    ELSE LET n == normalize_mp3_item(Head(q)) IN
         (IF n.mp3_path # None THEN <<PlayerJob("mp3", gen, n.text, Head(q).id)>> ELSE <<>>)
         \o Mp3Jobs(Tail(q), gen)

\* The awaits at which the Player task can be suspended, and its final states.
\* In every other position ("top", "check", "post") the task is running
\* between two awaits and nothing else runs on the event loop.
\*   "wait"   player_queue.get() on an empty queue
\*   "send"   _send_media_frame of frame frame_i
\*   "pace"   the pacing sleep after a frame of a list
\*   "fetch"  the async iterator of a TTS stream (its pacing sleep included)
\*   "clear"  the settle sleep and _send_clear
\*   "exited" returned; "cancelled", "dead": ended by CancelledError, by an exception
PlayerSuspended ==
    ply_pc \in {"wait", "send", "pace", "fetch", "clear", "exited", "cancelled", "dead"}

\* the state of media_stream before its tasks run, with stream_sid = sid
PlyInitSid(sid) ==
    /\ stream_sid = sid
    /\ generation = 0
    /\ player_queue = <<>>
    /\ barge_in_event = FALSE
    /\ playback_active = FALSE
    /\ shutdown_event = FALSE
    /\ assistant_playing = FALSE
    /\ barge_in_hits = 0
    /\ recv_pc = "run"
    /\ ply_pc = "wait"
    /\ cur = NoJob
    /\ frame_i = 0
    /\ frame_n = 0
    /\ completed = FALSE
    /\ next_id = 1
    /\ job_sent = [j \in JobIds |-> 0]
    /\ job_clears = [j \in JobIds |-> 0]
    /\ job_barge_at = [j \in JobIds |-> -1]
    /\ job_result = [j \in JobIds |-> "new"]
    /\ pending_at_barge = {}
    /\ job_text = [j \in JobIds |-> None]

PlyInit0 == PlyInitSid(None)

\* job_result with the ids in ids set to r
Marked(f, ids, r) == [j \in JobIds |-> IF j \in ids THEN r ELSE f[j]]

Truthy(text) == text # None /\ text # ""

\* queues.py lines 14-16 and twilio_stream_handler.py line 52, with the clock
\* already running (time.monotonic() is positive)
ClkInit0 ==
    /\ now = 1
    /\ last_speech_time = 1
    /\ playback_pause_accumulator = 0
    /\ playback_pause_start = 0
    /\ call_ended = FALSE

\* main.run_server line 69: the watchdog enters its loop; no reminder yet
RemInit0 ==
    /\ wd_polled = FALSE
    /\ reminded_since_speech = FALSE

\* main.run_server lines 63-67; transcript.txt holds the previous run
WdInit0 ==
    /\ wd_pc = "poll"
    /\ last_reminder_effective_silence = 0
    /\ goodbye_enqueued = FALSE
    /\ wait_start = 0
    /\ goodbye_job = 0
    /\ wait_timed_out = FALSE
    /\ transcript_file = <<"previous run">>

\* ---- queues.py: assistant playback tracking ----

\* start_assistant_playing, lines 18-22
start_assistant_playing ==
    /\ assistant_playing' = TRUE
    /\ playback_pause_start' = IF assistant_playing THEN playback_pause_start ELSE now
    /\ UNCHANGED playback_pause_accumulator

\* stop_assistant_playing, lines 24-29
stop_assistant_playing ==
    /\ assistant_playing' = FALSE
    /\ playback_pause_accumulator' =
          IF assistant_playing
          THEN playback_pause_accumulator + (now - playback_pause_start)
          ELSE playback_pause_accumulator
    /\ playback_pause_start' = IF assistant_playing THEN 0 ELSE playback_pause_start

\* reset_playback_pause_accumulator, lines 31-35
reset_playback_pause_accumulator ==
    /\ playback_pause_accumulator' = 0
    /\ playback_pause_start' = IF assistant_playing THEN now ELSE 0

\* A variant that leaves out the playback in progress
get_playback_pause_since_reset_NoCurrent == playback_pause_accumulator

\* get_playback_pause_since_reset, lines 37-44 (0 is falsy in line 42)
get_playback_pause_since_reset ==
    playback_pause_accumulator
    + (IF assistant_playing /\ playback_pause_start # 0
       THEN now - playback_pause_start ELSE 0)

\* twilio_stream_handler._mark_speech_now, lines 57-64
mark_speech_now ==
    /\ last_speech_time' = now
    /\ reset_playback_pause_accumulator

\* A variant of the loop top that does not look at call_ended
ReceiverLoopTop_IgnoresCallEnded ==
    /\ recv_pc' = "run"
    /\ shutdown_event' = shutdown_event

\* receiver_loop lines 435-442: back at the top of its loop the receiver looks
\* at call_ended; when it is set it sets shutdown_event, closes the WebSocket
\* and returns, otherwise it waits for the next message.
ReceiverLoopTop ==
    /\ recv_pc' = IF call_ended THEN "done" ELSE "run"
    /\ shutdown_event' = (shutdown_event \/ call_ended)

\* ---- receiver_loop ----

\* lines 457-475: the start event (one per stream).  stream_sid is captured
\* and, when greeting.mp3 exists, the greeting job is enqueued.
RecvStart ==
    /\ recv_pc = "run"
    /\ PlayerSuspended
    /\ stream_sid = None
    /\ stream_sid' = "S"
    /\ \E exists \in BOOLEAN :
        /\ exists => next_id <= MaxJobs
        /\ IF exists
           THEN /\ player_queue' = Append(player_queue,
                                     PlayerJob("mp3", generation, "greeting", next_id))
                /\ next_id' = next_id + 1
                /\ job_result' = Marked(job_result, {next_id}, "pending")
                /\ job_text' = [job_text EXCEPT ![next_id] = "greeting"]
           ELSE UNCHANGED <<player_queue, next_id, job_result, job_text>>
    /\ mark_speech_now
    /\ reminded_since_speech' = FALSE
    /\ UNCHANGED wd_polled
    /\ dummy_frames' = dummy_frames + 1
    /\ ReceiverLoopTop
    /\ UNCHANGED <<PLAYBACK_CLEAR_AFTER_END, generation, barge_in_event, playback_active,
                   assistant_playing, barge_in_hits, ply_pc,
                   cur, frame_i, frame_n, completed, job_sent, job_clears,
                   job_barge_at, pending_at_barge>>
    /\ UNCHANGED <<asrVars, dlgVars, outVars, wdVars>>
    /\ UNCHANGED <<now, call_ended>>
    /\ UNCHANGED psfVars
    /\ UNCHANGED vadVars
    /\ UNCHANGED ptVars
    /\ UNCHANGED ppVars
    /\ UNCHANGED lockVars
    /\ UNCHANGED segVars
    /\ UNCHANGED ttsVars

\* The level of a caller frame: below MIN_SPEECH_RMS_THRESHOLD, at or above it,
\* at or above BARGE_IN_THRESHOLD = MIN_SPEECH_RMS_THRESHOLD * BARGE_IN_MULTIPLIER
\* (lines 224-251)
RmsLevels == {"quiet", "speech", "loud"}

\* line 526: barge_in_hits >= max(1, BARGE_IN_CONSEC_FRAMES)
BargeInTriggered(hits) == hits >= Max2(1, BARGE_IN_CONSEC_FRAMES)

\* analysis: the consecutive loud frames received during the playback of job
\* id, counted up to BARGE_IN_CONSEC_FRAMES
LoudRun(counted, id) ==
    IF ~counted THEN 0
    ELSE IF loud_job # id THEN 1
    ELSE IF loud_run < BARGE_IN_CONSEC_FRAMES THEN loud_run + 1
    ELSE loud_run

\* lines 484-537: a media event.  Queued assistant output moves into the player
\* queue; while a playback is active the frame feeds the barge-in detector
\* (loud: rms >= BARGE_IN_THRESHOLD); a frame at or above
\* MIN_SPEECH_RMS_THRESHOLD marks caller speech (line 538).  The mark at the
\* first media frame (line 494) falls in the same second as the one of the
\* start event and is left out.
RecvMedia ==
    /\ recv_pc = "run"
    /\ PlayerSuspended
    /\ \E rms \in RmsLevels :
        LET loud == rms = "loud"
            moved == IF ELEVEN_STREAMING
                     THEN TtsJobs(tts_requests_queue, generation)
                     ELSE Mp3Jobs(llm_playback_queue, generation)
            taken == IF ELEVEN_STREAMING THEN IdsOf(tts_requests_queue)
                                         ELSE IdsOf(llm_playback_queue)
            left == IF ELEVEN_STREAMING THEN IdsOf(llm_playback_queue)
                                        ELSE IdsOf(tts_requests_queue)
            pq == player_queue \o moved
            hits == IF playback_active
                    THEN (IF loud THEN barge_in_hits + 1 ELSE 0)
                    ELSE barge_in_hits
            trigger == playback_active /\ BargeInTriggered(hits)
        IN
        /\ player_queue' = pq
        /\ tts_requests_queue' = IF ELEVEN_STREAMING THEN <<>> ELSE tts_requests_queue
        /\ llm_playback_queue' = IF ELEVEN_STREAMING THEN llm_playback_queue ELSE <<>>
        /\ job_result' = Marked(job_result, taken \ IdsOf(moved), "dropped")
        /\ barge_in_event' = (trigger \/ barge_in_event)
        /\ barge_in_hits' = IF trigger THEN 0 ELSE hits
        /\ job_barge_at' =
              IF trigger /\ job_barge_at[cur.id] = -1
              THEN [job_barge_at EXCEPT ![cur.id] = job_sent[cur.id]]
              ELSE job_barge_at
        /\ pending_at_barge' =
              IF trigger THEN pending_at_barge \cup IdsOf(pq) \cup left
                         ELSE pending_at_barge
        /\ IF rms # "quiet"
           THEN mark_speech_now
           ELSE UNCHANGED <<last_speech_time, playback_pause_accumulator,
                            playback_pause_start>>
        /\ reminded_since_speech' = (reminded_since_speech /\ rms = "quiet")
        /\ UNCHANGED wd_polled
        /\ loud_run' = IF trigger THEN 0 ELSE LoudRun(playback_active /\ loud, cur.id)
        /\ loud_job' = IF playback_active /\ loud /\ ~trigger THEN cur.id ELSE 0
    /\ ReceiverLoopTop
    /\ UNCHANGED <<PLAYBACK_CLEAR_AFTER_END, stream_sid, generation, playback_active,
                   assistant_playing, ply_pc, cur, frame_i,
                   frame_n, completed, next_id, job_sent, job_clears, job_text>>
    /\ UNCHANGED <<ELEVEN_STREAMING, transcript_lines>>
    /\ UNCHANGED <<asrVars, dlgVars, wdVars>>
    /\ UNCHANGED <<now, call_ended>>
    /\ UNCHANGED psfVars
    /\ UNCHANGED vadVars
    /\ UNCHANGED ptVars
    /\ UNCHANGED ppVars
    /\ UNCHANGED lockVars
    /\ UNCHANGED dummyVars
    /\ UNCHANGED <<quiet_run, long_runs, runs_at_open, reset_since, reset_at_open,
                   chunk_gap>>
    /\ UNCHANGED ttsVars

\* lines 445-448 and 477-482: the stop event, or the WebSocket closed by the
\* carrier.  shutdown_event is set and the receiver returns; the stop event
\* also sets call_ended.
RecvStop ==
    /\ recv_pc = "run"
    /\ PlayerSuspended
    /\ shutdown_event' = TRUE
    /\ recv_pc' = "done"
    /\ \E closed \in BOOLEAN : call_ended' = (call_ended \/ ~closed)
    /\ UNCHANGED <<PLAYBACK_CLEAR_AFTER_END, stream_sid, generation, player_queue,
                   barge_in_event, playback_active, assistant_playing, barge_in_hits,
                   ply_pc, cur, frame_i, frame_n, completed, next_id, job_sent,
                   job_clears, job_barge_at, job_result, pending_at_barge, job_text>>
    /\ UNCHANGED <<asrVars, dlgVars, outVars, wdVars>>
    /\ UNCHANGED clkVars
    /\ UNCHANGED psfVars
    /\ UNCHANGED vadVars
    /\ UNCHANGED ptVars
    /\ UNCHANGED ppVars
    /\ UNCHANGED lockVars
    /\ UNCHANGED dummyVars
    /\ UNCHANGED segVars
    /\ UNCHANGED ttsVars
    /\ UNCHANGED remVars

\* media_stream lines 612-623: after the receiver has returned or raised,
\* shutdown_event is set (line 615) and the Player task is cancelled unless it
\* is done.  CancelledError is raised at the await the
\* task is suspended in: in player_queue.get() it returns (line 363); inside the
\* try block the finally clause (lines 402-407) runs first.  Awaiting a Player
\* task that ended cancelled raises CancelledError, which "except Exception"
\* (line 619) does not catch: lines 621-623, which set call_ended, are then
\* skipped.
Teardown ==
    /\ recv_pc = "done"
    /\ PlayerSuspended
    /\ recv_pc' = "closed"
    /\ shutdown_event' = TRUE
    /\ CASE ply_pc = "wait" ->
              /\ ply_pc' = "exited"
              /\ call_ended' = TRUE
              /\ UNCHANGED <<playback_active, assistant_playing, job_result,
                             playback_pause_accumulator, playback_pause_start>>
         [] ply_pc \in {"send", "pace", "fetch"} ->
              /\ ply_pc' = "cancelled"
              /\ playback_active' = FALSE
              /\ stop_assistant_playing
              /\ job_result' = Marked(job_result, {cur.id}, "cancelled")
              /\ UNCHANGED call_ended
         [] ply_pc = "clear" ->
              /\ ply_pc' = "cancelled"
              /\ UNCHANGED <<playback_active, assistant_playing, job_result,
                             playback_pause_accumulator, playback_pause_start,
                             call_ended>>
         [] OTHER ->
              /\ call_ended' = TRUE
              /\ UNCHANGED <<ply_pc, playback_active, assistant_playing, job_result,
                             playback_pause_accumulator, playback_pause_start>>
    /\ UNCHANGED <<PLAYBACK_CLEAR_AFTER_END, stream_sid, generation, player_queue,
                   barge_in_event, barge_in_hits, cur, frame_i, frame_n,
                   completed, next_id, job_sent, job_clears, job_barge_at,
                   pending_at_barge, job_text>>
    /\ UNCHANGED <<asrVars, dlgVars, outVars, wdVars>>
    /\ UNCHANGED <<now, last_speech_time>>
    /\ UNCHANGED psfVars
    /\ UNCHANGED vadVars
    /\ UNCHANGED ptVars
    /\ UNCHANGED ppVars
    /\ UNCHANGED lockVars
    /\ UNCHANGED dummyVars
    /\ loud_run' = 0
    /\ loud_job' = 0
    /\ UNCHANGED <<quiet_run, long_runs, runs_at_open, reset_since, reset_at_open,
                   chunk_gap>>
    /\ UNCHANGED ttsVars
    /\ UNCHANGED remVars

\* ---- PhraseObject.phrase_text ----
\* A text is a sequence of tokens: words and the blank " ".

MaxTextChunks == 3

\* What the ASR worker stores in chunk.transcription: "" or a stripped text
\* (whisper_handler.py lines 97 and 140)
Transcriptions == {<<>>, <<"and">>, <<"yes">>, <<"oh", " ", "no">>}

\* the characters that \s matches and str.strip() removes
Whitespace == {" ", "\n"}

\* str.strip()
RECURSIVE lstrip(_)
lstrip(t) == IF t # <<>> /\ Head(t) \in Whitespace THEN lstrip(Tail(t)) ELSE t

RECURSIVE rstrip(_)
rstrip(t) ==
    IF t # <<>> /\ t[Len(t)] \in Whitespace
    THEN rstrip(SubSeq(t, 1, Len(t) - 1)) ELSE t

strip(t) == rstrip(lstrip(t))

\* " ".join(texts)
RECURSIVE join(_)
join(texts) ==
    IF texts = <<>> THEN <<>>
    ELSE IF Len(texts) = 1 THEN texts[1]
    ELSE texts[1] \o <<" ">> \o join(Tail(texts))

\* sorted(chunks, key=lambda c: c.chunk_index): stable, ascending
RECURSIVE insert_by_index(_, _)
insert_by_index(sorted, c) ==
    IF sorted = <<>> THEN <<c>>
    ELSE IF c.chunk_index < Head(sorted).chunk_index THEN <<c>> \o sorted
    ELSE <<Head(sorted)>> \o insert_by_index(Tail(sorted), c)

RECURSIVE sorted_chunks(_)
sorted_chunks(cs) ==
    IF cs = <<>> THEN <<>>
    ELSE insert_by_index(sorted_chunks(SubSeq(cs, 1, Len(cs) - 1)), cs[Len(cs)])

\* the generator of lines 29-31: chunk.transcription.strip() for the chunks
\* whose transcription is not empty
RECURSIVE stripped_transcripts(_)
stripped_transcripts(cs) ==
    IF cs = <<>> THEN <<>>
    ELSE (IF Head(cs).transcription # <<>>
          THEN <<strip(Head(cs).transcription)>> ELSE <<>>)
         \o stripped_transcripts(Tail(cs))

\* A variant of phrase_text that takes the chunks in the order of the list
phrase_text_Unsorted(cs) == strip(join(stripped_transcripts(cs)))

\* data_types.py lines 25-32
phrase_text(cs) == strip(join(stripped_transcripts(sorted_chunks(cs))))

PtInit0 ==
    /\ pt_chunks = <<>>
    /\ pt_pc = "returned"
    /\ pt_result = <<>>

\* phrase.phrase_text() is called (conversation_manager.py lines 30-34)
PhraseTextCall ==
    /\ pt_pc = "call"
    /\ pt_result' = phrase_text(pt_chunks)
    /\ pt_pc' = "returned"
    /\ UNCHANGED pt_chunks
    /\ UNCHANGED <<asrVars, dlgVars, outVars, plyVars, clkVars, call_ended, wdVars,
                   psfVars, vadVars>>
    /\ UNCHANGED ppVars
    /\ UNCHANGED lockVars
    /\ UNCHANGED dummyVars
    /\ UNCHANGED segVars
    /\ UNCHANGED ttsVars
    /\ UNCHANGED remVars

\* ---- llm_local_handler._postprocess_speech_style ----
\* A text is a sequence of characters; "bullet" is U+2022,
\* "emdash" U+2014 and "backquote" U+0060.

MaxTextLen == 4

Chars == {"a", "e", "g", "1", ".", " ", "*", "\n"}

Digits == {"0", "1", "2", "3", "4", "5", "6", "7", "8", "9"}
ListMarkers == {"*", "-", "bullet"}
Terminators == {".", "!", "?"}

\* the length of the run of characters of S that starts at position k of t
RECURSIVE Run(_, _, _)
Run(t, k, S) == IF k <= Len(t) /\ t[k] \in S THEN 1 + Run(t, k + 1, S) ELSE 0

\* (?m)^ : position k is the start of a line
LineStart(t, k) == k = 1 \/ t[k - 1] = "\n"

\* The length of the match of \s*(?:[*\-\u2022]+|\d+\.)\s+ at position k, 0 when
\* there is none
MarkerMatch(t, k) ==
    LET a == Run(t, k, Whitespace)
        p == k + a
        m == Run(t, p, ListMarkers)
        d == Run(t, p, Digits)
        aftm == Run(t, p + m, Whitespace)
        aftd == Run(t, p + d + 1, Whitespace)
    IN
    IF m > 0 /\ aftm > 0 THEN a + m + aftm
    ELSE IF d > 0 /\ p + d <= Len(t) /\ t[p + d] = "." /\ aftd > 0
    THEN a + d + 1 + aftd
    ELSE 0

\* line 73: re.sub(r"(?m)^\s*(?:[*\-\u2022]+|\d+\.)\s+", "", text), from position k
RECURSIVE strip_list_markers(_, _)
strip_list_markers(t, k) ==
    IF k > Len(t) THEN <<>>
    ELSE IF LineStart(t, k) /\ MarkerMatch(t, k) > 0
    THEN strip_list_markers(t, k + MarkerMatch(t, k))
    ELSE <<t[k]>> \o strip_list_markers(t, k + 1)

\* pat occurs in t at position k
OccursAt(t, k, pat) ==
    /\ k + Len(pat) - 1 <= Len(t)
    /\ SubSeq(t, k, k + Len(pat) - 1) = pat

\* str.replace(pat, new), from position k
RECURSIVE replace(_, _, _, _)
replace(t, k, pat, new) ==
    IF k > Len(t) THEN <<>>
    ELSE IF OccursAt(t, k, pat) THEN new \o replace(t, k + Len(pat), pat, new)
    ELSE <<t[k]>> \o replace(t, k + 1, pat, new)

ForExample == <<"f", "o", "r", " ", "e", "x", "a", "m", "p", "l", "e">>

\* lines 76-81
remove_symbols(t) ==
    LET t1 == replace(t, 1, <<"bullet">>, <<" ">>)
        t2 == replace(t1, 1, <<"*">>, <<" ">>)
        t3 == replace(t2, 1, <<"emdash">>, <<" ">>)
        t4 == replace(t3, 1, <<"-">>, <<" ">>)
        t5 == replace(t4, 1, <<"backquote">>, <<" ">>)
    IN replace(t5, 1, <<"e", ".", "g", ".">>, ForExample)

\* line 84: re.sub(r"\s*\n+\s*", " ", text): a run of whitespace with a newline
\* in it becomes one blank
RECURSIVE collapse_newlines(_, _)
collapse_newlines(t, k) ==
    IF k > Len(t) THEN <<>>
    ELSE LET a == Run(t, k, Whitespace) IN
         IF a > 0 /\ \E j \in k..(k + a - 1) : t[j] = "\n"
         THEN <<" ">> \o collapse_newlines(t, k + a)
         ELSE IF a > 0
         THEN SubSeq(t, k, k + a - 1) \o collapse_newlines(t, k + a)
         ELSE <<t[k]>> \o collapse_newlines(t, k + 1)

\* line 85: re.sub(r"\s{2,}", " ", text)
RECURSIVE collapse_spaces(_, _)
collapse_spaces(t, k) ==
    IF k > Len(t) THEN <<>>
    ELSE LET a == Run(t, k, Whitespace) IN
         IF a >= 2 THEN <<" ">> \o collapse_spaces(t, k + a)
         ELSE <<t[k]>> \o collapse_spaces(t, k + 1)

\* line 88: re.split(r"(?<=[.!?])\s+", text), from position k with the part
\* collected so far
RECURSIVE split_sentences(_, _, _)
split_sentences(t, k, part) ==
    IF k > Len(t) THEN <<part>>
    ELSE IF t[k] \in Whitespace /\ k > 1 /\ t[k - 1] \in Terminators
    THEN <<part>> \o split_sentences(t, k + Run(t, k, Whitespace), <<>>)
    ELSE split_sentences(t, k + 1, Append(part, t[k]))

\* lines 61-92
postprocess_speech_style(text) ==
    IF text = <<>> THEN text
    ELSE LET t1 == strip_list_markers(text, 1)
             t2 == remove_symbols(t1)
             t3 == collapse_newlines(t2, 1)
             t4 == strip(collapse_spaces(t3, 1))
             parts == split_sentences(t4, 1, <<>>)
         IN IF Len(parts) > 3 THEN strip(join(SubSeq(parts, 1, 3))) ELSE t4

PpInit0 ==
    /\ pp_text = <<>>
    /\ pp_pc = "idle"
    /\ pp_once = <<>>
    /\ pp_twice = <<>>

\* generate_llm_response applies the function to the reply
PostprocessOnce ==
    /\ pp_pc = "in"
    /\ pp_once' = postprocess_speech_style(pp_text)
    /\ pp_pc' = "once"
    /\ UNCHANGED <<pp_text, pp_twice>>
    /\ UNCHANGED <<asrVars, dlgVars, outVars, plyVars, clkVars, call_ended, wdVars,
                   psfVars, vadVars, ptVars>>
    /\ UNCHANGED lockVars
    /\ UNCHANGED dummyVars
    /\ UNCHANGED segVars
    /\ UNCHANGED ttsVars
    /\ UNCHANGED remVars

\* the function is applied to its own output
PostprocessTwice ==
    /\ pp_pc = "once"
    /\ pp_twice' = postprocess_speech_style(pp_once)
    /\ pp_pc' = "twice"
    /\ UNCHANGED <<pp_text, pp_once>>
    /\ UNCHANGED <<asrVars, dlgVars, outVars, plyVars, clkVars, call_ended, wdVars,
                   psfVars, vadVars, ptVars>>
    /\ UNCHANGED lockVars
    /\ UNCHANGED dummyVars
    /\ UNCHANGED segVars
    /\ UNCHANGED ttsVars
    /\ UNCHANGED remVars

\* ---- receiver_loop: barge-in detection and VAD, frame by frame ----

MaxMediaFrames == 7

\* the frames of a call in SpecSegment, enough for three chunks
MaxSegmentFrames == 14

\* line 234, in milliseconds
FRAME_MS == 20

\* The durations of lines 228-232 in milliseconds, scaled down.  Like the
\* default 0.55 s, CHUNK_SILENCE_MS is not a multiple of the frame duration;
\* DONE_SPEAKING_MS, read from the environment, need not be one either.
CHUNK_SILENCE_MS == 50
DONE_SPEAKING_MS == 70
MINCHUNK_MS == 120
MAXCHUNK_MS == 140
LEAD_IN_MS == 40

\* lines 235-238: int() truncates
silence_chunk_limit == CHUNK_SILENCE_MS \div FRAME_MS
done_speaking_chunk_limit == DONE_SPEAKING_MS \div FRAME_MS
max_chunk_chunks == MAXCHUNK_MS \div FRAME_MS
lead_in_frames == LEAD_IN_MS \div FRAME_MS

\* lines 264-276
VadInit0 ==
    /\ in_chunk = FALSE
    /\ has_spoken = FALSE
    /\ silence_counter = 0
    /\ phrase_silence_counter = 0
    /\ active_pcm = <<>>
    /\ pre_chunk_pcm_buffer = <<>>
    /\ first_media_logged = FALSE
    /\ chunk_audio = <<>>
    /\ job_vad_resets = [j \in JobIds |-> 0]

\* analysis: n consecutive quiet frames last DONE_SPEAKING_MS or more
LongSilence(n) == n * FRAME_MS >= DONE_SPEAKING_MS

SegInit0 ==
    /\ quiet_run = 0
    /\ long_runs = 0
    /\ runs_at_open = 0
    /\ reset_since = FALSE
    /\ reset_at_open = FALSE
    /\ chunk_gap = <<>>
    /\ loud_run = 0
    /\ loud_job = 0

\* deque(maxlen=lead_in_bytes).extend: only the newest audio is kept
DequeExtend(buf, frame) ==
    LET all == Append(buf, frame) IN
    IF Len(all) <= lead_in_frames THEN all
    ELSE SubSeq(all, Len(all) - lead_in_frames + 1, Len(all))

\* line 571: len(active_pcm) >= int(MINCHUNK_DURATION_SECONDS * 8000 * 2)
LongEnough(pcm) == Len(pcm) * FRAME_MS >= MINCHUNK_MS

\* The ways in which a message can be malformed
MalformedKinds == {"not_json", "not_object", "unknown_event", "no_payload", "bad_payload"}

\* json.loads raises inside the try of lines 450-453, an unknown event reaches
\* line 607 and a missing payload line 487: all three continue.  For a JSON
\* value that is not an object event.get (line 455) raises AttributeError, and
\* for a payload that is not valid base64 b64decode (line 489) raises; neither
\* is inside a try, so the exception ends receiver_loop.
MalformedRaises(kind) == kind \in {"not_object", "bad_payload"}

\* lines 444-455, 484-489 and 606-607: a malformed message
RecvMalformed(kind) ==
    /\ recv_pc = "run"
    /\ PlayerSuspended
    /\ IF MalformedRaises(kind)
       THEN /\ recv_pc' = "done"
            /\ UNCHANGED shutdown_event
       ELSE ReceiverLoopTop
    /\ UNCHANGED <<PLAYBACK_CLEAR_AFTER_END, stream_sid, generation, player_queue,
                   barge_in_event, playback_active, assistant_playing, barge_in_hits,
                   ply_pc, cur, frame_i, frame_n, completed, next_id, job_sent,
                   job_clears, job_barge_at, job_result, pending_at_barge, job_text>>
    /\ UNCHANGED <<asrVars, dlgVars, outVars, wdVars, clkVars, call_ended>>
    /\ UNCHANGED <<psfVars, vadVars>>
    /\ UNCHANGED ptVars
    /\ UNCHANGED ppVars
    /\ UNCHANGED lockVars
    /\ UNCHANGED dummyVars
    /\ UNCHANGED segVars
    /\ UNCHANGED ttsVars
    /\ UNCHANGED remVars

\* lines 484-604: a media event with a payload, the whole handler.  After the
\* queue move and the barge-in detector of lines 498-536 the frame goes through
\* the VAD: it opens a chunk, extends it, closes it after silence_chunk_limit
\* quiet frames (emitting it when it is long enough), and rotates phrase_id
\* after done_speaking_chunk_limit quiet frames.  A fresh uuid4 is the next
\* integer.
VadMediaUpTo(limit, levels) ==
    /\ recv_pc = "run"
    /\ PlayerSuspended
    /\ chunk_index < limit
    /\ \E rms \in levels :
        LET loud == rms = "loud"
            \* the audio of the frame: its place in the stream and its level
            pcm == [i |-> chunk_index, rms |-> rms]
            speech == rms # "quiet"
            moved == IF ELEVEN_STREAMING
                     THEN TtsJobs(tts_requests_queue, generation)
                     ELSE Mp3Jobs(llm_playback_queue, generation)
            taken == IF ELEVEN_STREAMING THEN IdsOf(tts_requests_queue)
                                         ELSE IdsOf(llm_playback_queue)
            left == IF ELEVEN_STREAMING THEN IdsOf(llm_playback_queue)
                                        ELSE IdsOf(tts_requests_queue)
            pq == player_queue \o moved
            hits == IF playback_active
                    THEN (IF loud THEN barge_in_hits + 1 ELSE 0)
                    ELSE barge_in_hits
            trigger == playback_active /\ BargeInTriggered(hits)
            \* line 536: _reset_vad_state_for_new_phrase
            pid1 == IF trigger THEN phrase_id + 1 ELSE phrase_id
            sc1 == IF trigger THEN 0 ELSE silence_counter
            psc1 == IF trigger THEN 0 ELSE phrase_silence_counter
            in1 == IF trigger THEN FALSE ELSE in_chunk
            hs1 == IF trigger THEN FALSE ELSE has_spoken
            act1 == IF trigger THEN <<>> ELSE active_pcm
            pre1 == IF trigger THEN <<>> ELSE pre_chunk_pcm_buffer
            \* line 542
            pre2 == DequeExtend(pre1, pcm)
            \* lines 544-554
            opens == ~in1 /\ speech
            pid2 == IF opens /\ hs1 /\ psc1 >= done_speaking_chunk_limit
                    THEN pid1 + 1 ELSE pid1
            hs2 == IF opens THEN TRUE ELSE hs1
            in2 == IF opens THEN TRUE ELSE in1
            sc2 == IF opens THEN 0 ELSE sc1
            psc2 == IF opens THEN 0 ELSE psc1
            act2 == IF opens THEN act1 \o pre2 ELSE act1
            pre3 == IF opens THEN <<>> ELSE pre2
            \* lines 556-564
            act3 == IF in2 THEN Append(act2, pcm) ELSE act2
            sc3 == IF in2 THEN (IF speech THEN 0 ELSE sc2 + 1) ELSE sc2
            psc3 == IF in2 THEN (IF speech THEN 0 ELSE psc2 + 1)
                    ELSE (IF speech THEN psc2 ELSE psc2 + 1)
            \* lines 570-593
            closes == in2 /\ sc3 >= silence_chunk_limit
            emits == closes /\ LongEnough(act3)
            c == Len(chunks) + 1
            \* lines 595-602
            rotates == ~in2 /\ ~speech /\ psc3 = done_speaking_chunk_limit /\ hs2
            \* analysis
            qr == IF speech THEN 0
                  ELSE IF LongSilence(quiet_run) THEN quiet_run
                  ELSE quiet_run + 1
            lr == IF LongSilence(qr) /\ ~LongSilence(quiet_run)
                  THEN long_runs + 1 ELSE long_runs
            rs == reset_since \/ trigger
            counted == playback_active /\ loud
        IN
        /\ player_queue' = pq
        /\ tts_requests_queue' = IF ELEVEN_STREAMING THEN <<>> ELSE tts_requests_queue
        /\ llm_playback_queue' = IF ELEVEN_STREAMING THEN llm_playback_queue ELSE <<>>
        /\ job_result' = Marked(job_result, taken \ IdsOf(moved), "dropped")
        /\ barge_in_event' = (trigger \/ barge_in_event)
        /\ barge_in_hits' = IF trigger THEN 0 ELSE hits
        /\ job_barge_at' =
              IF trigger /\ job_barge_at[cur.id] = -1
              THEN [job_barge_at EXCEPT ![cur.id] = job_sent[cur.id]]
              ELSE job_barge_at
        /\ pending_at_barge' =
              IF trigger THEN pending_at_barge \cup IdsOf(pq) \cup left
                         ELSE pending_at_barge
        /\ job_vad_resets' =
              IF trigger THEN [job_vad_resets EXCEPT ![cur.id] = @ + 1]
                         ELSE job_vad_resets
        /\ IF speech \/ ~first_media_logged
           THEN mark_speech_now
           ELSE UNCHANGED <<last_speech_time, playback_pause_accumulator,
                            playback_pause_start>>
        /\ reminded_since_speech' =
              (reminded_since_speech /\ ~(speech \/ ~first_media_logged))
        /\ UNCHANGED wd_polled
        /\ first_media_logged' = TRUE
        /\ pre_chunk_pcm_buffer' = pre3
        /\ in_chunk' = IF closes THEN FALSE ELSE in2
        /\ silence_counter' = IF closes THEN 0 ELSE sc3
        /\ phrase_silence_counter' = psc3
        /\ active_pcm' = IF closes THEN <<>> ELSE act3
        /\ has_spoken' = IF rotates THEN FALSE ELSE hs2
        /\ phrase_id' = IF rotates THEN pid2 + 1 ELSE pid2
        /\ IF emits
           THEN /\ chunks' = Append(chunks, AudioChunk(pid2, chunk_index))
                /\ transcription_queue' = Append(transcription_queue, c)
                /\ detected_phrases' = AddToPhrase(detected_phrases, pid2, c)
                /\ chunk_audio' = Append(chunk_audio, act3)
           ELSE UNCHANGED <<chunks, transcription_queue, detected_phrases, chunk_audio>>
        /\ chunk_index' = chunk_index + 1
        /\ quiet_run' = qr
        /\ runs_at_open' = IF opens THEN lr ELSE runs_at_open
        /\ reset_at_open' = IF opens THEN rs ELSE reset_at_open
        /\ IF emits
           THEN /\ chunk_gap' = Append(chunk_gap, [runs |-> runs_at_open',
                                                   reset |-> reset_at_open'])
                /\ long_runs' = IF LongSilence(qr) THEN 1 ELSE 0
                /\ reset_since' = FALSE
           ELSE /\ long_runs' = lr
                /\ reset_since' = rs
                /\ UNCHANGED chunk_gap
        /\ loud_run' = IF trigger THEN 0 ELSE LoudRun(counted, cur.id)
        /\ loud_job' = IF counted /\ ~trigger THEN cur.id ELSE 0
    /\ ReceiverLoopTop
    /\ UNCHANGED <<PLAYBACK_CLEAR_AFTER_END, stream_sid, generation, playback_active,
                   assistant_playing, ply_pc, cur, frame_i,
                   frame_n, completed, next_id, job_sent, job_clears, job_text>>
    /\ UNCHANGED <<ELEVEN_STREAMING, transcript_lines>>
    /\ UNCHANGED <<processed_chunks, asr_pc, asr_chunk, handle_phrase_tasks, redelivered>>
    /\ UNCHANGED <<dlgVars, wdVars, psfVars>>
    /\ UNCHANGED <<now, call_ended>>
    /\ UNCHANGED ptVars
    /\ UNCHANGED ppVars
    /\ UNCHANGED lockVars
    /\ UNCHANGED dummyVars
    /\ UNCHANGED ttsVars

\* a media event of a call of at most MaxMediaFrames frames.  (SpecSegment has
\* longer calls without playback, where a loud frame is a speech frame.)
VadMedia == VadMediaUpTo(MaxMediaFrames, RmsLevels)

\* ---- producers of assistant output ----

\* conversation_manager.handle_phrase lines 47-57: a reply is put on the
\* external queue the configuration selects.
DialogReply ==
    /\ PlayerSuspended
    /\ next_id <= MaxJobs
    /\ \E text \in {"reply", ""} :
        /\ IF ELEVEN_STREAMING
           THEN /\ tts_requests_queue' = Append(tts_requests_queue, TtsPayload(next_id, text))
                /\ UNCHANGED llm_playback_queue
           ELSE /\ llm_playback_queue' = Append(llm_playback_queue, Mp3Payload(next_id, text))
                /\ UNCHANGED tts_requests_queue
        /\ job_text' = [job_text EXCEPT ![next_id] = text]
    /\ job_result' = Marked(job_result, {next_id}, "pending")
    /\ next_id' = next_id + 1
    /\ UNCHANGED <<PLAYBACK_CLEAR_AFTER_END, stream_sid, generation, player_queue,
                   barge_in_event, playback_active, shutdown_event, assistant_playing,
                   barge_in_hits, recv_pc, ply_pc, cur, frame_i, frame_n, completed,
                   job_sent, job_clears, job_barge_at, pending_at_barge>>
    /\ UNCHANGED <<ELEVEN_STREAMING, transcript_lines>>
    /\ UNCHANGED <<asrVars, dlgVars, wdVars>>
    /\ UNCHANGED <<clkVars, call_ended>>
    /\ UNCHANGED psfVars
    /\ UNCHANGED vadVars
    /\ UNCHANGED ptVars
    /\ UNCHANGED ppVars
    /\ UNCHANGED lockVars
    /\ UNCHANGED dummyVars
    /\ UNCHANGED segVars
    /\ UNCHANGED ttsVars
    /\ UNCHANGED remVars

\* main.run_server lines 84-97: the watchdog puts the path of the reminder or
\* goodbye prompt on llm_playback_queue.
WatchdogPrompt ==
    /\ PlayerSuspended
    /\ next_id <= MaxJobs
    /\ llm_playback_queue' = Append(llm_playback_queue, BarePath(next_id))
    /\ UNCHANGED job_text
    /\ job_result' = Marked(job_result, {next_id}, "pending")
    /\ next_id' = next_id + 1
    /\ UNCHANGED <<PLAYBACK_CLEAR_AFTER_END, stream_sid, generation, player_queue,
                   barge_in_event, playback_active, shutdown_event, assistant_playing,
                   barge_in_hits, recv_pc, ply_pc, cur, frame_i, frame_n, completed,
                   job_sent, job_clears, job_barge_at, pending_at_barge>>
    /\ UNCHANGED <<ELEVEN_STREAMING, tts_requests_queue, transcript_lines>>
    /\ UNCHANGED <<asrVars, dlgVars, wdVars>>
    /\ UNCHANGED <<clkVars, call_ended>>
    /\ UNCHANGED psfVars
    /\ UNCHANGED vadVars
    /\ UNCHANGED ptVars
    /\ UNCHANGED ppVars
    /\ UNCHANGED lockVars
    /\ UNCHANGED dummyVars
    /\ UNCHANGED segVars
    /\ UNCHANGED ttsVars
    /\ UNCHANGED remVars

\* ---- main.run_server: the silence watchdog ----
REMINDER_SECONDS == 10
TickSeconds == 30
MaxTime == 31
GoodbyeSeconds == 1
PollSeconds == 1

\* run_server lines 74-77: the effective silence
silent_for == Max2(0, (now - last_speech_time) - get_playback_pause_since_reset)

\* wait_for_playback_completion line 60
PlaybackComplete == ~assistant_playing /\ llm_playback_queue = <<>>

\* wait_for_playback_completion line 63, with timeout = duration of goodbye.mp3
\* + 0.5 s (run_server lines 102-105); on a clock of whole seconds "more than
\* GoodbyeSeconds + 0.5" is "more than GoodbyeSeconds"
WaitExpired == now - wait_start > GoodbyeSeconds

\* Time passes while every task is suspended.  The clock stops at MaxTime,
\* unless a wait_for_playback_completion is still short of its timeout.
Tick ==
    /\ PlayerSuspended
    /\ now < MaxTime \/ (wd_pc = "wait" /\ ~WaitExpired)
    /\ now' = now + TickSeconds
    /\ UNCHANGED <<last_speech_time, playback_pause_accumulator, playback_pause_start,
                   call_ended>>
    /\ UNCHANGED <<asrVars, dlgVars, outVars, plyVars, wdVars>>
    /\ UNCHANGED psfVars
    /\ UNCHANGED vadVars
    /\ UNCHANGED ptVars
    /\ UNCHANGED ppVars
    /\ UNCHANGED lockVars
    /\ UNCHANGED dummyVars
    /\ UNCHANGED segVars
    /\ UNCHANGED ttsVars
    /\ UNCHANGED remVars

\* run_server lines 69-122: one iteration of the watchdog loop, up to its next
\* sleep.  The reminder is enqueued when the effective silence has grown by
\* REMINDER_SECONDS since the last one; when it has reached MAX_SILENCE_SECONDS
\* the goodbye is enqueued and wait_for_playback_completion is entered (its
\* first test fails on the queue just filled, so it sleeps), or, without a
\* goodbye file, call_ended is set at once.  Each prompt is the bare path.
WatchdogPoll ==
    /\ wd_pc = "poll"
    /\ PlayerSuspended
    /\ wd_polled' = TRUE
    /\ IF call_ended
       THEN /\ wd_pc' = "stopped"
            /\ UNCHANGED <<last_reminder_effective_silence, goodbye_enqueued, wait_start,
                           goodbye_job, llm_playback_queue, next_id, job_result,
                           call_ended, reminded_since_speech>>
       ELSE \E reminder_exists \in BOOLEAN, goodbye_exists \in BOOLEAN :
            LET raw_silent_for == now - last_speech_time
                since == IF raw_silent_for <= 0 THEN 0 ELSE last_reminder_effective_silence
                remind == silent_for - since >= REMINDER_SECONDS /\ reminder_exists
                bye == ~goodbye_enqueued /\ silent_for >= MAX_SILENCE_SECONDS
                q1 == IF remind THEN Append(llm_playback_queue, BarePath(next_id))
                                ELSE llm_playback_queue
                id1 == IF remind THEN next_id + 1 ELSE next_id
                id2 == IF bye /\ goodbye_exists THEN id1 + 1 ELSE id1
            IN
            /\ id2 <= MaxJobs + 1
            /\ last_reminder_effective_silence' = (IF remind THEN silent_for ELSE since)
            /\ reminded_since_speech' = (reminded_since_speech \/ remind)
            /\ next_id' = id2
            /\ job_result' = Marked(job_result, next_id..(id2 - 1), "pending")
            /\ IF bye
               THEN IF goodbye_exists
                    THEN /\ llm_playback_queue' = Append(q1, BarePath(id1))
                         /\ goodbye_job' = id1
                         /\ wait_start' = now
                         /\ wd_pc' = "wait"
                         /\ UNCHANGED <<goodbye_enqueued, call_ended>>
                    ELSE /\ llm_playback_queue' = q1
                         /\ call_ended' = TRUE
                         /\ goodbye_enqueued' = TRUE
                         /\ wd_pc' = "stopped"
                         /\ UNCHANGED <<goodbye_job, wait_start>>
               ELSE /\ llm_playback_queue' = q1
                    /\ UNCHANGED <<wd_pc, goodbye_enqueued, call_ended, goodbye_job,
                                   wait_start>>
    /\ UNCHANGED <<MAX_SILENCE_SECONDS, wait_timed_out, transcript_file>>
    /\ UNCHANGED <<PLAYBACK_CLEAR_AFTER_END, stream_sid, generation, player_queue,
                   barge_in_event, playback_active, shutdown_event, assistant_playing,
                   barge_in_hits, recv_pc, ply_pc, cur, frame_i, frame_n, completed,
                   job_sent, job_clears, job_barge_at, pending_at_barge, job_text>>
    /\ UNCHANGED <<ELEVEN_STREAMING, tts_requests_queue, transcript_lines>>
    /\ UNCHANGED <<asrVars, dlgVars, clkVars>>
    /\ UNCHANGED psfVars
    /\ UNCHANGED vadVars
    /\ UNCHANGED ptVars
    /\ UNCHANGED ppVars
    /\ UNCHANGED lockVars
    /\ UNCHANGED dummyVars
    /\ UNCHANGED segVars
    /\ UNCHANGED ttsVars

\* run_server line 120: await asyncio.sleep(poll_interval).  The watchdog has
\* run its loop body and sleeps; the clock moves on by PollSeconds, and before
\* it moves again the watchdog runs its loop body once more.  (poll_interval
\* is 0.5 s; on the clock of whole seconds one step stands for two sleeps.
\* A loop body run at the clock value of a caller speech event is one that
\* runs less than 0.25 s after it; one run after the next step is later.)
PollSleep ==
    /\ wd_pc = "poll"
    /\ wd_polled
    /\ PlayerSuspended
    /\ now < MaxTime
    /\ now' = now + PollSeconds
    /\ wd_polled' = FALSE
    /\ UNCHANGED reminded_since_speech
    /\ UNCHANGED <<last_speech_time, playback_pause_accumulator, playback_pause_start,
                   call_ended>>
    /\ UNCHANGED <<asrVars, dlgVars, outVars, plyVars, wdVars>>
    /\ UNCHANGED psfVars
    /\ UNCHANGED vadVars
    /\ UNCHANGED ptVars
    /\ UNCHANGED ppVars
    /\ UNCHANGED lockVars
    /\ UNCHANGED dummyVars
    /\ UNCHANGED segVars
    /\ UNCHANGED ttsVars

\* wait_for_playback_completion lines 53-66 and run_server lines 105-120: one
\* turn of the polling loop.  When it returns, with True or on the timeout with
\* False, run_server sets call_ended and leaves the watchdog loop.
WatchdogWaitPoll ==
    /\ wd_pc = "wait"
    /\ PlayerSuspended
    /\ PlaybackComplete \/ WaitExpired
    /\ wait_timed_out' = ~PlaybackComplete
    /\ call_ended' = TRUE
    /\ goodbye_enqueued' = TRUE
    /\ wd_pc' = "stopped"
    /\ UNCHANGED <<MAX_SILENCE_SECONDS, last_reminder_effective_silence, wait_start,
                   goodbye_job, transcript_file>>
    /\ UNCHANGED <<asrVars, dlgVars, outVars, plyVars, clkVars>>
    /\ UNCHANGED psfVars
    /\ UNCHANGED vadVars
    /\ UNCHANGED ptVars
    /\ UNCHANGED ppVars
    /\ UNCHANGED lockVars
    /\ UNCHANGED dummyVars
    /\ UNCHANGED segVars
    /\ UNCHANGED ttsVars
    /\ UNCHANGED remVars

\* run_server lines 126-155: the shutdown sequence.  The server and the ASR
\* worker are cancelled and the buffered caller chunks are dropped;
\* transcript.txt is not touched.
WatchdogShutdown ==
    /\ wd_pc = "stopped"
    /\ PlayerSuspended
    /\ wd_pc' = "exited"
    /\ UNCHANGED <<MAX_SILENCE_SECONDS, last_reminder_effective_silence,
                   goodbye_enqueued, wait_start, goodbye_job, wait_timed_out,
                   transcript_file>>
    /\ UNCHANGED <<asrVars, dlgVars, outVars, plyVars, clkVars, call_ended>>
    /\ UNCHANGED psfVars
    /\ UNCHANGED vadVars
    /\ UNCHANGED ptVars
    /\ UNCHANGED ppVars
    /\ UNCHANGED lockVars
    /\ UNCHANGED dummyVars
    /\ UNCHANGED segVars
    /\ UNCHANGED ttsVars
    /\ UNCHANGED remVars

\* ---- _player_stream_frames on a millisecond clock ----

\* _should_stop, lines 326-333
should_stop(job) == shutdown_event \/ barge_in_event \/ job.generation # generation

MaxPaceFrames == 3
MaxFetchMs == 30
MaxSendMs == 25
MaxOversleepMs == 5

Payloads == {"x", "y"}

\* line 322, in milliseconds
interval == 20

\* no call of _player_stream_frames is in progress
PsfInit0 ==
    /\ mono_ms = 0
    /\ psf_pc = "idle"
    /\ psf_frames = <<>>
    /\ psf_is_list = TRUE
    /\ psf_job_generation = 0
    /\ psf_rest = <<>>
    /\ psf_base = 0
    /\ psf_i = 0
    /\ psf_frame = None
    /\ psf_from = 0
    /\ psf_sent = <<>>
    /\ psf_completed = FALSE

\* A variant of the sleep target that is one interval early
psf_target_Early(b, k) == b + (k - 1) * interval

\* lines 341 and 352: target = base + i * interval
psf_target(b, k) == b + k * interval

\* lines 319-324: without a stream_sid the function returns False at once,
\* otherwise base is read from the clock and i starts at 0
PsfEnter ==
    /\ psf_pc = "idle"
    /\ IF stream_sid = None
       THEN /\ psf_pc' = "returned"
            /\ psf_completed' = FALSE
            /\ UNCHANGED <<psf_base, psf_i>>
       ELSE /\ psf_base' = mono_ms
            /\ psf_i' = 0
            /\ psf_pc' = "next"
            /\ UNCHANGED psf_completed
    /\ UNCHANGED <<mono_ms, psf_frames, psf_is_list, psf_job_generation, psf_rest,
                   psf_frame, psf_from, psf_sent>>
    /\ UNCHANGED <<asrVars, dlgVars, outVars, plyVars, clkVars, call_ended, wdVars>>
    /\ UNCHANGED vadVars
    /\ UNCHANGED ptVars
    /\ UNCHANGED ppVars
    /\ UNCHANGED lockVars
    /\ UNCHANGED dummyVars
    /\ UNCHANGED segVars
    /\ UNCHANGED ttsVars
    /\ UNCHANGED remVars

\* lines 336-339 and 347-350: the iteration produces the next frame (an async
\* iterator may take time to do so) or ends, in which case the function
\* returns True; before a frame is sent _should_stop is asked
PsfNext ==
    /\ psf_pc = "next"
    /\ \E f \in (IF psf_is_list THEN {0} ELSE {0, MaxFetchMs}) :
        /\ mono_ms' = mono_ms + f
        /\ IF psf_rest = <<>>
           THEN /\ psf_pc' = "returned"
                /\ psf_completed' = TRUE
                /\ UNCHANGED <<psf_rest, psf_i, psf_frame, psf_from>>
           ELSE IF should_stop([generation |-> psf_job_generation])
           THEN /\ psf_pc' = "returned"
                /\ psf_completed' = FALSE
                /\ UNCHANGED <<psf_i, psf_frame, psf_from>>
                /\ psf_rest' = IF psf_is_list THEN psf_rest ELSE Tail(psf_rest)
           ELSE /\ psf_frame' = Head(psf_rest)
                /\ psf_rest' = Tail(psf_rest)
                /\ psf_i' = psf_i + 1
                /\ psf_from' = mono_ms + f
                /\ psf_pc' = "send"
                /\ UNCHANGED psf_completed
    /\ UNCHANGED <<psf_frames, psf_is_list, psf_job_generation, psf_base, psf_sent>>
    /\ UNCHANGED <<asrVars, dlgVars, outVars, plyVars, clkVars, call_ended, wdVars>>
    /\ UNCHANGED vadVars
    /\ UNCHANGED ptVars
    /\ UNCHANGED ppVars
    /\ UNCHANGED lockVars
    /\ UNCHANGED dummyVars
    /\ UNCHANGED segVars
    /\ UNCHANGED ttsVars
    /\ UNCHANGED remVars

\* lines 340-344 and 351-355: _send_media_frame has returned; the function
\* computes the delay to its target and sleeps only when it is positive
PsfSent ==
    /\ psf_pc = "send"
    /\ \E d \in {0, MaxSendMs} :
        /\ mono_ms' = mono_ms + d
        /\ psf_sent' = Append(psf_sent, [frame |-> psf_frame, from |-> psf_from,
                                          at |-> mono_ms + d])
        /\ psf_pc' = IF psf_target(psf_base, psf_i) - (mono_ms + d) > 0
                     THEN "sleep" ELSE "next"
    /\ UNCHANGED <<psf_frames, psf_is_list, psf_job_generation, psf_rest, psf_base,
                   psf_i, psf_frame, psf_from, psf_completed>>
    /\ UNCHANGED <<asrVars, dlgVars, outVars, plyVars, clkVars, call_ended, wdVars>>
    /\ UNCHANGED vadVars
    /\ UNCHANGED ptVars
    /\ UNCHANGED ppVars
    /\ UNCHANGED lockVars
    /\ UNCHANGED dummyVars
    /\ UNCHANGED segVars
    /\ UNCHANGED ttsVars
    /\ UNCHANGED remVars

\* lines 340 and 351: _send_media_frame raises, and so does the function
PsfSendFail ==
    /\ psf_pc = "send"
    /\ psf_pc' = "raised"
    /\ UNCHANGED <<mono_ms, psf_frames, psf_is_list, psf_job_generation, psf_rest,
                   psf_base, psf_i, psf_frame, psf_from, psf_sent, psf_completed>>
    /\ UNCHANGED <<asrVars, dlgVars, outVars, plyVars, clkVars, call_ended, wdVars>>
    /\ UNCHANGED vadVars
    /\ UNCHANGED ptVars
    /\ UNCHANGED ppVars
    /\ UNCHANGED lockVars
    /\ UNCHANGED dummyVars
    /\ UNCHANGED segVars
    /\ UNCHANGED ttsVars
    /\ UNCHANGED remVars

\* lines 344 and 355: asyncio.sleep(delay) is over, at its target or later
PsfWoke ==
    /\ psf_pc = "sleep"
    /\ \E o \in {0, MaxOversleepMs} :
        mono_ms' = psf_target(psf_base, psf_i) + o
    /\ psf_pc' = "next"
    /\ UNCHANGED <<psf_frames, psf_is_list, psf_job_generation, psf_rest, psf_base,
                   psf_i, psf_frame, psf_from, psf_sent, psf_completed>>
    /\ UNCHANGED <<asrVars, dlgVars, outVars, plyVars, clkVars, call_ended, wdVars>>
    /\ UNCHANGED vadVars
    /\ UNCHANGED ptVars
    /\ UNCHANGED ppVars
    /\ UNCHANGED lockVars
    /\ UNCHANGED dummyVars
    /\ UNCHANGED segVars
    /\ UNCHANGED ttsVars
    /\ UNCHANGED remVars

\* While the function is suspended the receiver sets barge_in_event (line 531)
\* or shutdown_event (line 480)
PsfInterrupt ==
    /\ psf_pc \in {"send", "sleep"} \/ (psf_pc = "next" /\ ~psf_is_list)
    /\ \E e \in {"barge", "shutdown"} :
        /\ barge_in_event' = (barge_in_event \/ e = "barge")
        /\ shutdown_event' = (shutdown_event \/ e = "shutdown")
    /\ barge_in_event' # barge_in_event \/ shutdown_event' # shutdown_event
    /\ UNCHANGED <<PLAYBACK_CLEAR_AFTER_END, stream_sid, generation, player_queue,
                   playback_active, assistant_playing, barge_in_hits, recv_pc, ply_pc,
                   cur, frame_i, frame_n, completed, next_id, job_sent, job_clears,
                   job_barge_at, job_result, pending_at_barge, job_text>>
    /\ UNCHANGED psfVars
    /\ UNCHANGED <<asrVars, dlgVars, outVars, clkVars, call_ended, wdVars>>
    /\ UNCHANGED vadVars
    /\ UNCHANGED ptVars
    /\ UNCHANGED ppVars
    /\ UNCHANGED lockVars
    /\ UNCHANGED dummyVars
    /\ UNCHANGED segVars
    /\ UNCHANGED ttsVars
    /\ UNCHANGED remVars

\* ---- player_loop ----

\* line 410: the interrupted path is taken
InterruptedPath(done, barged, sid) == ~done /\ barged /\ sid # None

\* A variant of line 421 that forgets the completed flag
WritesNormalLine_NoFlag(done, text) == Truthy(text)

\* line 421: the plain Assistant line is written
WritesNormalLine(done, text) == done /\ Truthy(text)

\* line 411: the "[interrupted]" Assistant line is written
WritesInterruptedLine(text) == Truthy(text)

\* line 424: a clear is sent after a playback that ran to its end
ClearsAfterEnd(done, sid) == done /\ sid # None /\ PLAYBACK_CLEAR_AFTER_END

\* A variant of line 362 that takes the newest job instead of the oldest
NextJob_Newest(q) == q[Len(q)]

\* line 362: player_queue.get() returns the oldest job
NextJob(q) == Head(q)

\* lines 362-400 up to the first await: the head of the queue is taken.  A
\* stale job, or any job before the stream has started, is skipped.  Otherwise
\* the playback is marked active and the frames are prepared: a file that is
\* missing counts as completed (line 387), a file that does not decode raises
\* out of the loop after the finally clause, a stream yields 0..MaxFrames
\* frames.
Dequeue ==
    LET job == NextJob(player_queue) IN
    /\ player_queue' = Tail(player_queue)
    /\ IF job.generation # generation
       THEN /\ ply_pc' = "top"
            /\ job_result' = Marked(job_result, {job.id}, "stale")
            /\ UNCHANGED <<barge_in_event, playback_active, assistant_playing, cur,
                           frame_i, frame_n, completed, playback_pause_accumulator,
                           playback_pause_start>>
       ELSE IF stream_sid = None
       THEN /\ ply_pc' = "top"
            /\ job_result' = Marked(job_result, {job.id}, "nosid")
            /\ UNCHANGED <<barge_in_event, playback_active, assistant_playing, cur,
                           frame_i, frame_n, completed, playback_pause_accumulator,
                           playback_pause_start>>
       ELSE /\ barge_in_event' = FALSE
            /\ cur' = job
            /\ frame_i' = 0
            /\ IF job.kind = "mp3"
               THEN \E exists \in BOOLEAN, decodes \in BOOLEAN, n \in 1..MaxFrames :
                    IF ~exists
                    THEN /\ completed' = TRUE
                         /\ frame_n' = 0
                         /\ ply_pc' = "post"
                         /\ playback_active' = TRUE
                         /\ start_assistant_playing
                         /\ job_result' = Marked(job_result, {job.id}, "completed")
                    ELSE IF ~decodes
                    THEN /\ completed' = FALSE
                         /\ frame_n' = 0
                         /\ ply_pc' = "dead"
                         /\ playback_active' = FALSE
                         /\ assistant_playing' = FALSE
                         /\ playback_pause_start' = 0
                         /\ UNCHANGED playback_pause_accumulator
                         /\ job_result' = Marked(job_result, {job.id}, "error")
                    ELSE /\ completed' = FALSE
                         /\ frame_n' = n
                         /\ ply_pc' = "check"
                         /\ playback_active' = TRUE
                         /\ start_assistant_playing
                         /\ job_result' = Marked(job_result, {job.id}, "playing")
               ELSE \E n \in 0..MaxFrames :
                         /\ completed' = FALSE
                         /\ frame_n' = n
                         /\ ply_pc' = "fetch"
                         /\ playback_active' = TRUE
                         /\ start_assistant_playing
                         /\ job_result' = Marked(job_result, {job.id}, "playing")

\* line 362: player_queue.get() returns once the queue holds a job
PlayerWake ==
    /\ ply_pc = "wait"
    /\ player_queue # <<>>
    /\ Dequeue
    /\ UNCHANGED <<PLAYBACK_CLEAR_AFTER_END, stream_sid, generation, shutdown_event,
                   barge_in_hits, recv_pc, next_id, job_sent, job_clears, job_barge_at,
                   pending_at_barge, job_text>>
    /\ UNCHANGED <<asrVars, dlgVars, outVars, wdVars>>
    /\ UNCHANGED <<now, last_speech_time, call_ended>>
    /\ UNCHANGED psfVars
    /\ UNCHANGED vadVars
    /\ UNCHANGED ptVars
    /\ UNCHANGED ppVars
    /\ UNCHANGED lockVars
    /\ UNCHANGED dummyVars
    /\ UNCHANGED segVars
    /\ UNCHANGED ttsVars
    /\ UNCHANGED remVars

\* lines 360-362: the loop condition, then get() on a queue that may be empty
PlayerTop ==
    /\ ply_pc = "top"
    /\ IF shutdown_event
       THEN /\ ply_pc' = "exited"
            /\ UNCHANGED <<player_queue, barge_in_event, playback_active,
                           assistant_playing, cur, frame_i, frame_n, completed,
                           job_result, playback_pause_accumulator,
                           playback_pause_start>>
       ELSE IF player_queue = <<>>
       THEN /\ ply_pc' = "wait"
            /\ UNCHANGED <<player_queue, barge_in_event, playback_active,
                           assistant_playing, cur, frame_i, frame_n, completed,
                           job_result, playback_pause_accumulator,
                           playback_pause_start>>
       ELSE Dequeue
    /\ UNCHANGED <<PLAYBACK_CLEAR_AFTER_END, stream_sid, generation, shutdown_event,
                   barge_in_hits, recv_pc, next_id, job_sent, job_clears, job_barge_at,
                   pending_at_barge, job_text>>
    /\ UNCHANGED <<asrVars, dlgVars, outVars, wdVars>>
    /\ UNCHANGED <<now, last_speech_time, call_ended>>
    /\ UNCHANGED psfVars
    /\ UNCHANGED vadVars
    /\ UNCHANGED ptVars
    /\ UNCHANGED ppVars
    /\ UNCHANGED lockVars
    /\ UNCHANGED dummyVars
    /\ UNCHANGED segVars
    /\ UNCHANGED ttsVars
    /\ UNCHANGED remVars

\* _player_stream_frames lines 336-340 and 347-351: the next step of the loop
\* over the frames.  When no frame is left the function returns True without
\* looking at the stop conditions; otherwise _should_stop is asked before the
\* frame is sent.
PlayerCheck ==
    /\ ply_pc = "check"
    /\ IF frame_i = frame_n
       THEN /\ completed' = TRUE
            /\ ply_pc' = "post"
            /\ job_result' = Marked(job_result, {cur.id}, "completed")
            /\ UNCHANGED frame_i
       ELSE IF should_stop(cur)
       THEN /\ completed' = FALSE
            /\ ply_pc' = "post"
            /\ job_result' = Marked(job_result, {cur.id}, "stopped")
            /\ UNCHANGED frame_i
       ELSE /\ frame_i' = frame_i + 1
            /\ ply_pc' = "send"
            /\ UNCHANGED <<completed, job_result>>
    /\ UNCHANGED <<PLAYBACK_CLEAR_AFTER_END, stream_sid, generation, player_queue,
                   barge_in_event, playback_active, shutdown_event, assistant_playing,
                   barge_in_hits, recv_pc, cur, frame_n, next_id, job_sent, job_clears,
                   job_barge_at, pending_at_barge, job_text>>
    /\ UNCHANGED <<asrVars, dlgVars, outVars, wdVars>>
    /\ UNCHANGED <<clkVars, call_ended>>
    /\ UNCHANGED psfVars
    /\ UNCHANGED vadVars
    /\ UNCHANGED ptVars
    /\ UNCHANGED ppVars
    /\ UNCHANGED lockVars
    /\ UNCHANGED dummyVars
    /\ UNCHANGED segVars
    /\ UNCHANGED ttsVars
    /\ UNCHANGED remVars

\* lines 340 and 351: _send_media_frame has put the frame on the socket
PlayerSendDone ==
    /\ ply_pc = "send"
    /\ job_sent' = [job_sent EXCEPT ![cur.id] = @ + 1]
    /\ ply_pc' = IF cur.kind = "mp3" THEN "pace" ELSE "fetch"
    /\ UNCHANGED <<PLAYBACK_CLEAR_AFTER_END, stream_sid, generation, player_queue,
                   barge_in_event, playback_active, shutdown_event, assistant_playing,
                   barge_in_hits, recv_pc, cur, frame_i, frame_n, completed, next_id,
                   job_clears, job_barge_at, job_result, pending_at_barge, job_text>>
    /\ UNCHANGED <<asrVars, dlgVars, outVars, wdVars>>
    /\ UNCHANGED <<clkVars, call_ended>>
    /\ UNCHANGED psfVars
    /\ UNCHANGED vadVars
    /\ UNCHANGED ptVars
    /\ UNCHANGED ppVars
    /\ UNCHANGED lockVars
    /\ UNCHANGED dummyVars
    /\ UNCHANGED segVars
    /\ UNCHANGED ttsVars
    /\ UNCHANGED remVars

\* A variant of the failing send in which the finally clause of lines 402-407
\* is missing
PlayerSendFail_NoFinally ==
    /\ ply_pc = "send"
    /\ ply_pc' = "dead"
    /\ job_result' = Marked(job_result, {cur.id}, "error")
    /\ UNCHANGED <<PLAYBACK_CLEAR_AFTER_END, stream_sid, generation, player_queue,
                   barge_in_event, playback_active, shutdown_event, assistant_playing,
                   barge_in_hits, recv_pc, cur, frame_i, frame_n, completed, next_id,
                   job_sent, job_clears, job_barge_at, pending_at_barge, job_text>>
    /\ UNCHANGED <<asrVars, dlgVars, outVars, wdVars>>
    /\ UNCHANGED <<clkVars, call_ended>>
    /\ UNCHANGED psfVars
    /\ UNCHANGED vadVars
    /\ UNCHANGED ptVars
    /\ UNCHANGED ppVars
    /\ UNCHANGED lockVars
    /\ UNCHANGED dummyVars
    /\ UNCHANGED segVars
    /\ UNCHANGED ttsVars
    /\ UNCHANGED remVars

\* lines 340 and 351: the send raises (the socket is closed).  The finally
\* clause runs and the exception ends the Player task.
PlayerSendFail ==
    /\ ply_pc = "send"
    /\ ply_pc' = "dead"
    /\ playback_active' = FALSE
    /\ stop_assistant_playing
    /\ job_result' = Marked(job_result, {cur.id}, "error")
    /\ UNCHANGED <<PLAYBACK_CLEAR_AFTER_END, stream_sid, generation, player_queue,
                   barge_in_event, shutdown_event, barge_in_hits, recv_pc, cur, frame_i,
                   frame_n, completed, next_id, job_sent, job_clears, job_barge_at,
                   pending_at_barge, job_text>>
    /\ UNCHANGED <<asrVars, dlgVars, outVars, wdVars>>
    /\ UNCHANGED <<now, last_speech_time, call_ended>>
    /\ UNCHANGED psfVars
    /\ UNCHANGED vadVars
    /\ UNCHANGED ptVars
    /\ UNCHANGED ppVars
    /\ UNCHANGED lockVars
    /\ UNCHANGED dummyVars
    /\ loud_run' = 0
    /\ loud_job' = 0
    /\ UNCHANGED <<quiet_run, long_runs, runs_at_open, reset_since, reset_at_open,
                   chunk_gap>>
    /\ UNCHANGED ttsVars
    /\ UNCHANGED remVars

\* lines 341-344: the pacing sleep after a frame of a list is over
PlayerPaceDone ==
    /\ ply_pc = "pace"
    /\ ply_pc' = "check"
    /\ UNCHANGED <<PLAYBACK_CLEAR_AFTER_END, stream_sid, generation, player_queue,
                   barge_in_event, playback_active, shutdown_event, assistant_playing,
                   barge_in_hits, recv_pc, cur, frame_i, frame_n, completed, next_id,
                   job_sent, job_clears, job_barge_at, job_result, pending_at_barge, job_text>>
    /\ UNCHANGED <<asrVars, dlgVars, outVars, wdVars>>
    /\ UNCHANGED <<clkVars, call_ended>>
    /\ UNCHANGED psfVars
    /\ UNCHANGED vadVars
    /\ UNCHANGED ptVars
    /\ UNCHANGED ppVars
    /\ UNCHANGED lockVars
    /\ UNCHANGED dummyVars
    /\ UNCHANGED segVars
    /\ UNCHANGED ttsVars
    /\ UNCHANGED remVars

\* line 347 (with the pacing sleep of lines 352-355): the TTS stream has
\* produced its next frame, or has ended
PlayerFetched ==
    /\ ply_pc = "fetch"
    /\ ply_pc' = "check"
    /\ UNCHANGED <<PLAYBACK_CLEAR_AFTER_END, stream_sid, generation, player_queue,
                   barge_in_event, playback_active, shutdown_event, assistant_playing,
                   barge_in_hits, recv_pc, cur, frame_i, frame_n, completed, next_id,
                   job_sent, job_clears, job_barge_at, job_result, pending_at_barge, job_text>>
    /\ UNCHANGED <<asrVars, dlgVars, outVars, wdVars>>
    /\ UNCHANGED <<clkVars, call_ended>>
    /\ UNCHANGED psfVars
    /\ UNCHANGED vadVars
    /\ UNCHANGED ptVars
    /\ UNCHANGED ppVars
    /\ UNCHANGED lockVars
    /\ UNCHANGED dummyVars
    /\ UNCHANGED segVars
    /\ UNCHANGED ttsVars
    /\ UNCHANGED remVars

\* lines 402-427 up to the await of the clear: the finally clause, then either
\* the interrupted path (partial line, next generation, both drains) or the
\* normal one (plain line); a clear is pending in the first case and, when
\* ClearsAfterEnd, in the second.
PlayerPost ==
    /\ ply_pc = "post"
    /\ playback_active' = FALSE
    /\ stop_assistant_playing
    /\ frame_i' = 0
    /\ frame_n' = 0
    /\ completed' = FALSE
    /\ IF InterruptedPath(completed, barge_in_event, stream_sid)
       THEN /\ transcript_lines' =
                  IF WritesInterruptedLine(cur.transcript_text)
                  THEN append_transcript_line(transcript_lines, "Assistant",
                                              cur.transcript_text, " [interrupted]", cur.id)
                  ELSE transcript_lines
            /\ generation' = generation + 1
            /\ player_queue' = <<>>
            /\ tts_requests_queue' = <<>>
            /\ llm_playback_queue' = <<>>
            /\ job_result' = Marked(job_result,
                                    IdsOf(player_queue) \cup IdsOf(tts_requests_queue)
                                        \cup IdsOf(llm_playback_queue),
                                    "drained")
            /\ ply_pc' = "clear"
            /\ UNCHANGED cur
       ELSE /\ transcript_lines' =
                  IF WritesNormalLine(completed, cur.transcript_text)
                  THEN append_transcript_line(transcript_lines, "Assistant",
                                              cur.transcript_text, "", cur.id)
                  ELSE transcript_lines
            /\ IF ClearsAfterEnd(completed, stream_sid)
               THEN ply_pc' = "clear" /\ UNCHANGED cur
               ELSE ply_pc' = "top" /\ cur' = NoJob
            /\ UNCHANGED <<generation, player_queue, tts_requests_queue,
                           llm_playback_queue, job_result>>
    /\ UNCHANGED <<PLAYBACK_CLEAR_AFTER_END, stream_sid, barge_in_event, shutdown_event,
                   barge_in_hits, recv_pc, next_id, job_sent, job_clears, job_barge_at, pending_at_barge, job_text>>
    /\ UNCHANGED ELEVEN_STREAMING
    /\ UNCHANGED <<asrVars, dlgVars, wdVars>>
    /\ UNCHANGED <<now, last_speech_time, call_ended>>
    /\ UNCHANGED psfVars
    /\ UNCHANGED vadVars
    /\ UNCHANGED ptVars
    /\ UNCHANGED ppVars
    /\ UNCHANGED lockVars
    /\ UNCHANGED dummyVars
    /\ loud_run' = 0
    /\ loud_job' = 0
    /\ UNCHANGED <<quiet_run, long_runs, runs_at_open, reset_since, reset_at_open,
                   chunk_gap>>
    /\ UNCHANGED ttsVars
    /\ UNCHANGED remVars

\* lines 417 and 425-427: _send_clear has put the clear event on the socket
PlayerClear ==
    /\ ply_pc = "clear"
    /\ job_clears' = [job_clears EXCEPT ![cur.id] = @ + 1]
    /\ ply_pc' = "top"
    /\ cur' = NoJob
    /\ UNCHANGED <<PLAYBACK_CLEAR_AFTER_END, stream_sid, generation, player_queue,
                   barge_in_event, playback_active, shutdown_event, assistant_playing,
                   barge_in_hits, recv_pc, frame_i, frame_n, completed, next_id,
                   job_sent, job_barge_at, job_result, pending_at_barge, job_text>>
    /\ UNCHANGED <<asrVars, dlgVars, outVars, wdVars>>
    /\ UNCHANGED <<clkVars, call_ended>>
    /\ UNCHANGED psfVars
    /\ UNCHANGED vadVars
    /\ UNCHANGED ptVars
    /\ UNCHANGED ppVars
    /\ UNCHANGED lockVars
    /\ UNCHANGED dummyVars
    /\ UNCHANGED segVars
    /\ UNCHANGED ttsVars
    /\ UNCHANGED remVars

\* ------------------------------------------------------------------------
\* The send lock (twilio_stream_handler.py lines 89-105, 254)
\*
\* Two tasks write to the socket: the receiver (the dummy frame of line 463)
\* and the Player (media frames, lines 340 and 351; clear, lines 417 and
\* 427).  Each send is "async with send_lock: await websocket.send_json(..)".
\* The lock is asyncio.Lock: acquire takes a free lock at once unless a
\* waiter is queued, otherwise queues a future and waits for it; release
\* unlocks and resolves the first waiter's future; the woken waiter leaves
\* the queue and locks when it runs next.
\* ------------------------------------------------------------------------
MaxSends == 4

Tasks == {"receiver", "player"}

\* the events a task sends: lines 463 / 340, 351, 417, 427
SendKinds(t) == IF t = "receiver" THEN {"dummy"} ELSE {"media", "clear"}

LockInit0 ==
    /\ send_lock = [locked |-> FALSE, waiters |-> <<>>]
    /\ send_holder = None
    /\ snd_pc = [t \in Tasks |-> "idle"]
    /\ snd_kind = [t \in Tasks |-> None]
    /\ ws_sent = <<>>

DummyInit0 == dummy_frames = 0

\* Lock.acquire, the fast path: not locked and no waiter queued (no future of
\* the queue is cancelled while it is queued: a cancelled waiter removes itself
\* in the same step)
lock_free_Always == TRUE

lock_free == ~send_lock.locked /\ send_lock.waiters = <<>>

\* Lock._wake_up_first: the future of the first waiter is resolved
wake_up_first(waiters, pc) ==
    IF waiters # <<>> /\ pc[Head(waiters)] = "wait"
    THEN [pc EXCEPT ![Head(waiters)] = "woken"]
    ELSE pc

RemoveTask(q, t) == SelectSeq(q, LAMBDA x : x # t)

\* lines 91, 97, 104: "async with send_lock" is entered
SendEnter(t, kind) ==
    /\ snd_pc[t] = "idle"
    /\ kind \in SendKinds(t)
    /\ Len(ws_sent) < MaxSends
    /\ snd_kind' = [snd_kind EXCEPT ![t] = kind]
    /\ IF lock_free
       THEN /\ send_lock' = [send_lock EXCEPT !.locked = TRUE]
            /\ send_holder' = t
            /\ snd_pc' = [snd_pc EXCEPT ![t] = "send"]
       ELSE /\ send_lock' = [send_lock EXCEPT !.waiters = Append(@, t)]
            /\ snd_pc' = [snd_pc EXCEPT ![t] = "wait"]
            /\ UNCHANGED send_holder
    /\ UNCHANGED ws_sent
    /\ UNCHANGED <<asrVars, dlgVars, outVars, plyVars, clkVars, call_ended, wdVars>>
    /\ UNCHANGED <<psfVars, vadVars, ptVars, ppVars, dummyVars>>
    /\ UNCHANGED segVars
    /\ UNCHANGED ttsVars
    /\ UNCHANGED remVars

\* Lock.acquire after "await fut": the woken waiter leaves the queue and locks
SendLocked(t) ==
    /\ snd_pc[t] = "woken"
    /\ send_lock' = [locked |-> TRUE, waiters |-> RemoveTask(send_lock.waiters, t)]
    /\ send_holder' = t
    /\ snd_pc' = [snd_pc EXCEPT ![t] = "send"]
    /\ UNCHANGED <<snd_kind, ws_sent>>
    /\ UNCHANGED <<asrVars, dlgVars, outVars, plyVars, clkVars, call_ended, wdVars>>
    /\ UNCHANGED <<psfVars, vadVars, ptVars, ppVars, dummyVars>>
    /\ UNCHANGED segVars
    /\ UNCHANGED ttsVars
    /\ UNCHANGED remVars

\* lines 92, 98, 105: send_json returns (ok) or raises; either way the
\* "async with" releases the lock.  _send_clear swallows the exception (lines
\* 100-101); from the other two it propagates and ends the task.
SendLeave(t, ok) ==
    /\ snd_pc[t] = "send"
    /\ ws_sent' = IF ok THEN Append(ws_sent, snd_kind[t]) ELSE ws_sent
    /\ send_lock' = [send_lock EXCEPT !.locked = FALSE]
    /\ send_holder' = None
    /\ snd_pc' = [wake_up_first(send_lock.waiters, snd_pc) EXCEPT
                    ![t] = IF ok \/ snd_kind[t] = "clear" THEN "idle" ELSE "done"]
    /\ snd_kind' = [snd_kind EXCEPT ![t] = None]
    /\ UNCHANGED <<asrVars, dlgVars, outVars, plyVars, clkVars, call_ended, wdVars>>
    /\ UNCHANGED <<psfVars, vadVars, ptVars, ppVars, dummyVars>>
    /\ UNCHANGED segVars
    /\ UNCHANGED ttsVars
    /\ UNCHANGED remVars

\* lines 477-482: the receiver returns at a stop event (between two sends)
SendReceiverStop ==
    /\ snd_pc["receiver"] = "idle"
    /\ snd_pc' = [snd_pc EXCEPT !["receiver"] = "done"]
    /\ UNCHANGED <<send_lock, send_holder, snd_kind, ws_sent>>
    /\ UNCHANGED <<asrVars, dlgVars, outVars, plyVars, clkVars, call_ended, wdVars>>
    /\ UNCHANGED <<psfVars, vadVars, ptVars, ppVars, dummyVars>>
    /\ UNCHANGED segVars
    /\ UNCHANGED ttsVars
    /\ UNCHANGED remVars

\* lines 616-617: once the receiver is over the Player task is cancelled,
\* wherever it is.  CancelledError leaves "async with" (the lock is released)
\* or Lock.acquire (the waiter leaves the queue and, the lock being free,
\* wakes the next one).
SendPlayerCancel ==
    /\ snd_pc["receiver"] = "done"
    /\ snd_pc["player"] # "done"
    /\ LET waiters == RemoveTask(send_lock.waiters, "player")
           locked == send_lock.locked /\ snd_pc["player"] # "send"
       IN /\ send_lock' = [locked |-> locked, waiters |-> waiters]
          /\ send_holder' = IF snd_pc["player"] = "send" THEN None ELSE send_holder
          /\ snd_pc' = [(IF locked THEN snd_pc ELSE wake_up_first(waiters, snd_pc))
                          EXCEPT !["player"] = "done"]
    /\ snd_kind' = [snd_kind EXCEPT !["player"] = None]
    /\ UNCHANGED ws_sent
    /\ UNCHANGED <<asrVars, dlgVars, outVars, plyVars, clkVars, call_ended, wdVars>>
    /\ UNCHANGED <<psfVars, vadVars, ptVars, ppVars, dummyVars>>
    /\ UNCHANGED segVars
    /\ UNCHANGED ttsVars
    /\ UNCHANGED remVars

\* ------------------------------------------------------------------------
\* stream_tts_ulaw_frames (elevenlabs_handler.py lines 127-181)
\*
\* A thread reads the vendor stream and schedules, for every non-empty chunk,
\* _enqueue_bytes_from_thread on the event loop; when the stream ends or fails
\* it schedules q.put_nowait(SENTINEL).  The loop runs the callbacks in the
\* order they were scheduled.  The consumer, an async generator driven by the
\* Player, takes the items from q, cuts them into frames and yields each frame
\* base64-encoded.  The sizes are scaled down: TtsQueueMax stands for the 512
\* of line 133 and FrameBytes for the 160 of lines 176-181.  The bytes of the
\* stream are numbered 1, 2, ... so that each is recognisable; the padding
\* byte is 255.
\* ------------------------------------------------------------------------
TtsQueueMax == 2
FrameBytes == 4
MaxTtsChunks == 4
MaxChunkBytes == 4

\* line 134: an object that is no chunk of bytes
SENTINEL == <<-1>>

\* the chunks of a stream with the given chunk sizes, its bytes numbered from
\* first + 1
RECURSIVE Chunked(_, _)
Chunked(sizes, first) ==
    IF sizes = <<>> THEN <<>>
    ELSE <<[k \in 1..Head(sizes) |-> first + k]>>
             \o Chunked(Tail(sizes), first + Head(sizes))

\* base64.b64encode: four 6-bit digits for every three bytes; one or two
\* bytes left over give two or three digits and the padding sign, here 64
RECURSIVE b64encode(_)
b64encode(bytes) ==
    IF bytes = <<>> THEN <<>>
    ELSE IF Len(bytes) = 1
    THEN <<bytes[1] \div 4, (bytes[1] % 4) * 16, 64, 64>>
    ELSE IF Len(bytes) = 2
    THEN <<bytes[1] \div 4,
           (bytes[1] % 4) * 16 + bytes[2] \div 16,
           (bytes[2] % 16) * 4,
           64>>
    ELSE <<bytes[1] \div 4,
           (bytes[1] % 4) * 16 + bytes[2] \div 16,
           (bytes[2] % 16) * 4 + bytes[3] \div 64,
           bytes[3] % 64>> \o b64encode(SubSeq(bytes, 4, Len(bytes)))

TtsInit0 ==
    /\ tts_stream = <<>>
    /\ tts_prod_pc = "done"
    /\ tts_callbacks = <<>>
    /\ tts_q = <<>>
    /\ tts_buf = <<>>
    /\ tts_pc = "done"
    /\ tts_frames = <<>>
    /\ tts_accepted = <<>>
    /\ tts_dropped = 0

\* lines 136-142, _enqueue_bytes_from_thread: a full queue skips the chunk
enqueue_bytes_DropOldest(q, data) ==
    IF Len(q) >= TtsQueueMax THEN Append(Tail(q), data) ELSE Append(q, data)

enqueue_bytes(q, data) ==
    IF Len(q) >= TtsQueueMax THEN q ELSE Append(q, data)

\* lines 179-181: what is left in buf is padded to a full frame
final_frames_NoGuard(buf) ==
    <<b64encode(buf \o [k \in 1..(FrameBytes - Len(buf)) |-> 255])>>

final_frames(buf) ==
    IF buf # <<>>
    THEN <<b64encode(buf \o [k \in 1..(FrameBytes - Len(buf)) |-> 255])>>
    ELSE <<>>

\* lines 158-160: the thread takes the next chunk of the vendor stream
TtsProduce ==
    /\ tts_prod_pc = "run"
    /\ tts_stream # <<>>
    /\ tts_stream' = Tail(tts_stream)
    /\ tts_callbacks' = IF Head(tts_stream) # <<>>
                        THEN Append(tts_callbacks, Head(tts_stream))
                        ELSE tts_callbacks
    /\ UNCHANGED <<tts_prod_pc, tts_q, tts_buf, tts_pc, tts_frames, tts_accepted,
                   tts_dropped>>
    /\ UNCHANGED <<asrVars, dlgVars, outVars, plyVars, clkVars, call_ended, wdVars>>
    /\ UNCHANGED <<psfVars, vadVars, ptVars, ppVars, lockVars, dummyVars, segVars>>
    /\ UNCHANGED remVars

\* lines 161-164: the stream has ended, or convert or the iteration raised;
\* the finally clause schedules the sentinel
TtsProducerEnd(failed) ==
    /\ tts_prod_pc = "run"
    /\ failed \/ tts_stream = <<>>
    /\ tts_prod_pc' = "done"
    /\ tts_callbacks' = Append(tts_callbacks, SENTINEL)
    /\ UNCHANGED <<tts_stream, tts_q, tts_buf, tts_pc, tts_frames, tts_accepted,
                   tts_dropped>>
    /\ UNCHANGED <<asrVars, dlgVars, outVars, plyVars, clkVars, call_ended, wdVars>>
    /\ UNCHANGED <<psfVars, vadVars, ptVars, ppVars, lockVars, dummyVars, segVars>>
    /\ UNCHANGED remVars

\* The loop runs the oldest callback: _enqueue_bytes_from_thread(chunk), or
\* q.put_nowait(SENTINEL), which raises QueueFull inside the callback when q
\* is full (the loop logs the exception and goes on).
TtsCallback ==
    /\ tts_callbacks # <<>>
    /\ tts_callbacks' = Tail(tts_callbacks)
    /\ LET item == Head(tts_callbacks) IN
       IF item = SENTINEL
       THEN /\ tts_q' = IF Len(tts_q) >= TtsQueueMax THEN tts_q
                        ELSE Append(tts_q, SENTINEL)
            /\ UNCHANGED <<tts_accepted, tts_dropped>>
       ELSE /\ tts_q' = enqueue_bytes(tts_q, item)
            /\ IF Len(tts_q) >= TtsQueueMax
               THEN tts_dropped' = tts_dropped + 1 /\ UNCHANGED tts_accepted
               ELSE tts_accepted' = tts_accepted \o item /\ UNCHANGED tts_dropped
    /\ UNCHANGED <<tts_stream, tts_prod_pc, tts_buf, tts_pc, tts_frames>>
    /\ UNCHANGED <<asrVars, dlgVars, outVars, plyVars, clkVars, call_ended, wdVars>>
    /\ UNCHANGED <<psfVars, vadVars, ptVars, ppVars, lockVars, dummyVars, segVars>>
    /\ UNCHANGED remVars

\* lines 170-175 and 179-181: q.get returns an item
TtsGet ==
    /\ tts_pc = "get"
    /\ tts_q # <<>>
    /\ tts_q' = Tail(tts_q)
    /\ LET item == Head(tts_q) IN
       IF item = SENTINEL
       THEN /\ tts_frames' = tts_frames \o final_frames(tts_buf)
            /\ tts_buf' = <<>>
            /\ tts_pc' = "done"
       ELSE /\ tts_buf' = tts_buf \o item
            /\ tts_pc' = IF Len(tts_buf') >= FrameBytes THEN "yield" ELSE "get"
            /\ UNCHANGED tts_frames
    /\ UNCHANGED <<tts_stream, tts_prod_pc, tts_callbacks, tts_accepted, tts_dropped>>
    /\ UNCHANGED <<asrVars, dlgVars, outVars, plyVars, clkVars, call_ended, wdVars>>
    /\ UNCHANGED <<psfVars, vadVars, ptVars, ppVars, lockVars, dummyVars, segVars>>
    /\ UNCHANGED remVars

\* lines 176-178: one frame is cut off buf and yielded to the Player
TtsYield ==
    /\ tts_pc = "yield"
    /\ tts_frames' = Append(tts_frames, b64encode(SubSeq(tts_buf, 1, FrameBytes)))
    /\ tts_buf' = SubSeq(tts_buf, FrameBytes + 1, Len(tts_buf))
    /\ tts_pc' = IF Len(tts_buf') >= FrameBytes THEN "yield" ELSE "get"
    /\ UNCHANGED <<tts_stream, tts_prod_pc, tts_callbacks, tts_q, tts_accepted,
                   tts_dropped>>
    /\ UNCHANGED <<asrVars, dlgVars, outVars, plyVars, clkVars, call_ended, wdVars>>
    /\ UNCHANGED <<psfVars, vadVars, ptVars, ppVars, lockVars, dummyVars, segVars>>
    /\ UNCHANGED remVars

\* ------------------------------------------------------------------------
\* Claims about the ASR worker and the phrase assembler (SpecAsr)
\* ------------------------------------------------------------------------
\* Number of elements of seq equal to x
RECURSIVE Count(_, _)
Count(seq, x) ==
    IF seq = <<>> THEN 0
    ELSE (IF Head(seq) = x THEN 1 ELSE 0) + Count(Tail(seq), x)

\* The worker has finished chunk c (line 201 recorded it).
Processed(c) == chunks[c].chunk_index \in processed_chunks

AllProcessed(pid) ==
    \A k \in 1..Len(detected_phrases[pid].chunks) :
        Processed(detected_phrases[pid].chunks[k])

\* C1: for every phrase_id with at least one emitted chunk, once the ASR worker
\* has processed every chunk of the phrase, handle_phrase has been invoked
\* exactly once for it (and never more than once at any time).
C1_ExactlyOneHandOff ==
    \A pid \in DOMAIN detected_phrases :
        /\ Count(handle_phrase_tasks, pid) <= 1
        /\ AllProcessed(pid) => Count(handle_phrase_tasks, pid) = 1

\* C2: a chunk the ASR worker has finished has is_transcribed = TRUE, whatever
\* the engine returned, so a phrase all of whose chunks were processed
\* satisfies is_complete().
C2_ProcessedIsTranscribed ==
    /\ \A c \in 1..Len(chunks) : Processed(c) => chunks[c].is_transcribed
    /\ \A pid \in DOMAIN detected_phrases :
          AllProcessed(pid) => is_complete(detected_phrases[pid], chunks)

C27_Step ==
    \A pid \in DOMAIN detected_phrases :
        /\ detected_phrases[pid].is_done =>
              /\ detected_phrases'[pid].is_done
              /\ detected_phrases'[pid].chunks = detected_phrases[pid].chunks
        /\ (AllProcessed(pid) /\ pid # phrase_id) => detected_phrases[pid].is_done

Min2(a, b) == IF a <= b THEN a ELSE b

\* The history a finished turn should leave: the system message, then the
\* user and assistant messages of the last min(turns, MAX_TURNS) turns in order.
HistoryIsTrimmed ==
    LET n == Min2(turns, MAX_TURNS) IN
    /\ Len(message_history) = 1 + 2 * n
    /\ message_history[1] = SystemMessage
    /\ \A i \in 2..Len(message_history) : message_history[i].role # "system"
    /\ \A k \in 1..n :
          /\ message_history[2 * k].role = "user"
          /\ message_history[2 * k].turn = turns - n + k
          /\ message_history[2 * k + 1].role = "assistant"
          /\ message_history[2 * k + 1].turn = turns - n + k

\* C7: after every turn handled by the Dialog Manager the history has length
\* 1 + 2*min(turns_so_far, MAX_TURNS), starts with the only system message and
\* holds the most recent user/assistant messages in order.
C7_HistoryTrimInvariant ==
    (dlg_pc = "idle" /\ turns >= 1) => HistoryIsTrimmed

AllFailed(outcomes) ==
    /\ outcomes # <<>>
    /\ \A k \in 1..Len(outcomes) : outcomes[k] \notin {"ok", "ok_empty"}

\* C8: when every LLM attempt of a turn failed, generate_llm_response returns
\* the placeholder with the history and handle_phrase ends without raising.
C8_FailureYieldsPlaceholder ==
    /\ (dlg_pc = "post" /\ AllFailed(llm_outcomes)) =>
          llm_result = PairResult(ErrorPlaceholder, message_history)
    /\ (dlg_pc = "idle" /\ turns >= 1 /\ last_turn.all_failed) =>
          (~last_turn.raised /\ last_turn.response = ErrorPlaceholder)

\* The sleep the retry policy requires before retry r (r = 1, 2): 200, 600 ms.
RequiredBackoff(r) == backoffs[r]

\* C9: a 5xx answer is retried at most twice, the first retry after a sleep of
\* at least 200 ms and the second after at least 600 ms, and 503, 503, 200
\* returns the third attempt's reply.
C9_RetryBackoff ==
    USE_OPEN_WEBUI =>
        /\ Len(llm_outcomes) <= 1 + Len(backoffs)
        /\ \A k \in 2..Len(llm_outcomes) :
              llm_outcomes[k - 1] = "5xx" =>
                  llm_sleeps[k - 1] >= RequiredBackoff(k - 1)
        /\ (dlg_pc = "post" /\ llm_outcomes = <<"5xx", "5xx", "ok">>) =>
              llm_result = PairResult("reply", message_history)

\* C10: a further request is made only after a 5xx answer: never after a 4xx,
\* a malformed body, a connection error or a timeout.
C10_RetryOnly5xx ==
    \A k \in 2..Len(llm_outcomes) : llm_outcomes[k - 1] = "5xx"

\* ------------------------------------------------------------------------
\* Claims about the Player (SpecPlayer)
\* ------------------------------------------------------------------------
\* The Player is through with job j: it ran the job to its end or stopped it,
\* and is back at the top of its loop.
Finished(j) == job_result[j] \in {"completed", "stopped"} /\ cur.id # j

AssistantLines == {k \in 1..Len(transcript_lines) : transcript_lines[k].role = "Assistant"}

LinesOfJob(j) == {k \in AssistantLines : transcript_lines[k].job = j}

\* C3: when barge-in is raised after a job has sent i >= 1 frames, the job sends
\* at most i+1 frames in total and gets exactly one clear event (never a second
\* one, and one once the Player is through with the job).
C3_BargeInOneClear ==
    \A j \in JobIds :
        job_barge_at[j] >= 1 =>
            /\ job_sent[j] <= job_barge_at[j] + 1
            /\ job_clears[j] <= 1
            /\ Finished(j) => job_clears[j] = 1

\* C4: no frame is ever sent of a job that was in the player queue or in an
\* external queue at the moment barge-in was raised.
C4_PendingDiscarded ==
    \A j \in pending_at_barge : job_sent[j] = 0

C6_NoLineWithoutFrames ==
    \A k \in AssistantLines : job_sent[transcript_lines[k].job] >= 1

\* A prompt of the watchdog: made from a bare path, so without transcript text
IsPrompt(j) == job_result[j] # "new" /\ job_text[j] = None

\* C13: every reminder or goodbye prompt that the Player streamed to its end
\* (at least one frame sent, the Player through with it) has an Assistant line.
C13_PromptHasLine ==
    \A j \in JobIds :
        IsPrompt(j) /\ job_result[j] = "completed" /\ job_sent[j] >= 1 /\ Finished(j)
            => LinesOfJob(j) # {}

\* The Player is not inside a job: idle, between two jobs or terminated
OutsideJob == ply_pc \in {"wait", "top", "clear", "exited", "cancelled", "dead"}

\* C15: whenever the Player is not inside a job, assistant_playing is false and
\* playback_active is clear.
C15_FlagsClearOutsideJob ==
    OutsideJob => ~assistant_playing /\ ~playback_active

\* C15 witness: the Player task has ended inside a job, by cancellation of a
\* playback or by a failing send or decode.
C15_Witness ==
    /\ ply_pc \in {"cancelled", "dead"}
    /\ \E j \in JobIds : job_result[j] \in {"cancelled", "error"}

\* C16: a failure while resolving or streaming the frames of one job does not
\* end the Player loop.
C16_FailureConfined ==
    (\E j \in JobIds : job_result[j] = "error") => ply_pc # "dead"

\* C17: no frame is sent of a job whose generation is not the current one; a job
\* skipped as stale has no frame, no line and no clear; and the Player takes
\* its jobs from the head of the queue, which only grows at its tail (or is
\* emptied), so jobs are played in the order they were enqueued.
C17_Step ==
    /\ (ply_pc' = "send" => cur'.generation = generation')
    /\ \A j \in JobIds :
          job_result'[j] = "stale" =>
              job_sent'[j] = 0 /\ job_clears'[j] = 0
              /\ \A k \in 1..Len(transcript_lines') : transcript_lines'[k].job # j
    /\ (cur' # cur /\ cur' # NoJob =>
            player_queue # <<>> /\ cur' = Head(player_queue)
            /\ player_queue' = Tail(player_queue))
    /\ (player_queue' # player_queue =>
            \/ player_queue # <<>> /\ player_queue' = Tail(player_queue)
            \/ player_queue' = <<>>
            \/ /\ Len(player_queue') > Len(player_queue)
               /\ SubSeq(player_queue', 1, Len(player_queue)) = player_queue)

C17_StaleNeverPlayedFifo == [][C17_Step]_vars

\* C17 witness: a frame of a job of a later generation is being sent, after a
\* barge-in has advanced the generation.
C17_Witness ==
    ply_pc = "send" /\ generation >= 1 /\ cur.generation = generation

\* ------------------------------------------------------------------------
\* Claims about the watchdog and the teardown (SpecCall, SpecCallLive,
\* SpecNoLimit)
\* ------------------------------------------------------------------------
\* C11: in a step during which the assistant is playing before and after and
\* no caller speech is marked, the effective silence does not increase; a step
\* that increases it starts with the assistant not playing.
C11_Step ==
    /\ (assistant_playing /\ assistant_playing' /\ last_speech_time' = last_speech_time
            => silent_for' <= silent_for)
    /\ (silent_for' > silent_for => ~assistant_playing)

C11_SilencePausedWhilePlaying == [][C11_Step]_vars

\* C11 witness: a playback has lasted a full tick of the clock with no caller
\* speech in it, and raw silence exceeds effective silence by that time.
C11_Witness ==
    /\ assistant_playing
    /\ now - playback_pause_start >= TickSeconds
    /\ last_speech_time < playback_pause_start
    /\ silent_for < now - last_speech_time

\* C12: when the watchdog has set call_ended after a wait that did not time out,
\* the goodbye prompt is neither waiting in a queue nor being streamed.
C12_GoodbyeDoneBeforeCallEnd ==
    goodbye_enqueued /\ goodbye_job # 0 /\ ~wait_timed_out
        => job_result[goodbye_job] \notin {"pending", "playing"}

\* C14: with MAX_SILENCE_SECONDS <= 0 the watchdog never enqueues the goodbye
\* prompt and never sets call_ended.
C14_NoForcedEndWhenDisabled ==
    MAX_SILENCE_SECONDS <= 0 => goodbye_job = 0 /\ ~goodbye_enqueued

write_transcript(lines) ==
    [k \in 1..Len(lines) |->
        [role |-> lines[k].role, text |-> lines[k].text, suffix |-> lines[k].suffix]]

\* C20: after the teardown of the call (run_server has finished its shutdown
\* sequence) transcript.txt holds the lines of the call, in order, and nothing
\* else.
C20_TranscriptFlushed ==
    wd_pc = "exited" => transcript_file = write_transcript(transcript_lines)

\* ------------------------------------------------------------------------
\* Claims about the pacing of the frames (SpecPacing)
\* ------------------------------------------------------------------------
\* C18: the frames sent are the first frames of the job in their order, each
\* once; the send of a frame starts only after the send of the frame before it
\* has returned; the send of frame k+1 never starts before base + k * interval;
\* and when the function returns True every frame has been sent.
C18_FramesInOrderAndPaced ==
    LET n == Len(psf_sent) IN
    /\ n <= Len(psf_frames)
    /\ \A k \in 1..n :
        /\ psf_sent[k].frame = psf_frames[k]
        /\ psf_sent[k].from <= psf_sent[k].at
        /\ k > 1 => /\ psf_sent[k - 1].at <= psf_sent[k].from
                    /\ psf_sent[k].from >= psf_base + (k - 1) * interval
    /\ psf_pc = "send" =>
        /\ psf_i = n + 1
        /\ psf_frame = psf_frames[n + 1]
        /\ n >= 1 => /\ psf_sent[n].at <= psf_from
                     /\ psf_from >= psf_base + n * interval
    /\ (psf_pc = "returned" /\ psf_completed) => n = Len(psf_frames)

\* C18 witness: a job of MaxPaceFrames frames has been sent to its end; one
\* frame was sent exactly at its target after a pacing sleep, and one later
\* than its target because the send before it was slow.
C18_Witness ==
    /\ psf_pc = "returned"
    /\ psf_completed
    /\ Len(psf_sent) = MaxPaceFrames
    /\ \E k \in 2..Len(psf_sent) :
        psf_sent[k].from = psf_base + (k - 1) * interval
    /\ \E k \in 2..Len(psf_sent) :
        psf_sent[k].from > psf_base + (k - 1) * interval

\* ------------------------------------------------------------------------
\* Claims about the receiver and its VAD (SpecVad)
\* ------------------------------------------------------------------------
\* C21: a malformed message is ignored.  A step that handles one while
\* call_ended is not set leaves the receiver running and changes neither the
\* VAD state, nor the Player, nor shutdown_event or call_ended.
C21_Step ==
    ((\E kind \in MalformedKinds : RecvMalformed(kind)) /\ ~call_ended)
        => /\ recv_pc' = "run"
           /\ UNCHANGED <<vadVars, phrase_id, chunk_index, ply_pc, shutdown_event,
                          call_ended>>

C21_MalformedIgnored == [][C21_Step]_vars

\* C22: during the playback of one job the VAD state is reset at most once.
C22_OneVadResetPerPlayback ==
    \A j \in JobIds : job_vad_resets[j] <= 1

\* the number of quiet frames at the end of a chunk's audio
TrailingQuiet(audio) ==
    LET Q == {n \in 0..Len(audio) :
                \A k \in (Len(audio) - n + 1)..Len(audio) : audio[k].rms = "quiet"}
    IN CHOOSE n \in Q : \A m \in Q : m <= n

\* C29: every emitted chunk holds at least MINCHUNK_MS of audio and ends with
\* at least CHUNK_SILENCE_MS of consecutive quiet frames; and outside a chunk
\* the chunk state is reset.
C29_ChunkLongEnoughAndSilent ==
    /\ \A k \in 1..Len(chunk_audio) :
        /\ Len(chunk_audio[k]) * FRAME_MS >= MINCHUNK_MS
        /\ TrailingQuiet(chunk_audio[k]) * FRAME_MS >= CHUNK_SILENCE_MS
    /\ ~in_chunk => active_pcm = <<>> /\ silence_counter = 0

\* C30: neither the chunk being formed nor an emitted chunk holds more than
\* MAXCHUNK_MS of audio.
C30_ChunkNeverLongerThanMax ==
    /\ Len(active_pcm) * FRAME_MS <= MAXCHUNK_MS
    /\ \A k \in 1..Len(chunk_audio) : Len(chunk_audio[k]) * FRAME_MS <= MAXCHUNK_MS

\* ------------------------------------------------------------------------
\* Claims about phrase_text (SpecPhraseText)
\* ------------------------------------------------------------------------
\* the chunk of cs with chunk_index i
ChunkAt(cs, i) == CHOOSE k \in 1..Len(cs) : cs[k].chunk_index = i

\* the non-empty transcriptions of the chunks with an index >= i, by ascending
\* index, each after a single blank
RECURSIVE SpokenFrom(_, _)
SpokenFrom(cs, i) ==
    IF i > MaxTextChunks THEN <<>>
    ELSE (IF /\ \E k \in 1..Len(cs) : cs[k].chunk_index = i
             /\ cs[ChunkAt(cs, i)].transcription # <<>>
          THEN <<" ">> \o cs[ChunkAt(cs, i)].transcription ELSE <<>>)
         \o SpokenFrom(cs, i + 1)

\* C28: phrase_text() is the non-empty transcriptions in ascending chunk_index
\* order joined by single blanks, whatever the order of the list; a chunk with
\* an empty transcription contributes nothing.
C28_PhraseTextInIndexOrder ==
    pt_pc = "returned" =>
        LET spoken == SpokenFrom(pt_chunks, 1) IN
        pt_result = (IF spoken = <<>> THEN <<>> ELSE Tail(spoken))

\* C28 witness: the chunks with the transcriptions "yes", "" and "and" were
\* appended in descending index order and the text returned is "and yes".
C28_Witness ==
    /\ pt_pc = "returned"
    /\ Len(pt_chunks) = 3
    /\ pt_chunks[1].chunk_index > pt_chunks[2].chunk_index
    /\ pt_chunks[2].chunk_index > pt_chunks[3].chunk_index
    /\ pt_chunks[2].transcription = <<>>
    /\ pt_result = <<"and", " ", "yes">>

\* ------------------------------------------------------------------------
\* Claims about the reply post-processing (SpecPostprocess)
\* ------------------------------------------------------------------------
\* the number of characters of t that are in S
RECURSIVE CountIn(_, _)
CountIn(t, S) ==
    IF t = <<>> THEN 0 ELSE (IF Head(t) \in S THEN 1 ELSE 0) + CountIn(Tail(t), S)

\* C25: applying the post-processing to its own output changes nothing, and
\* the output holds none of '*', '-', the bullet, the backquote and 'e.g.' and
\* at most three sentence terminators.
C25_PostprocessIdempotentAndClean ==
    /\ pp_pc = "twice" => pp_twice = pp_once
    /\ pp_pc \in {"once", "twice"} =>
        /\ CountIn(pp_once, {"*", "-", "bullet", "backquote"}) = 0
        /\ \A k \in 1..Len(pp_once) : ~OccursAt(pp_once, k, <<"e", ".", "g", ".">>)
        /\ CountIn(pp_once, Terminators) <= 3

\* ------------------------------------------------------------------------
\* Claims about the send lock (SpecSendLock)
\* ------------------------------------------------------------------------
\* the tasks whose websocket.send_json is in progress
Sending == {t \in Tasks : snd_pc[t] = "send"}

\* C23: no two WebSocket sends (dummy frame, media frame, clear) are in
\* progress at the same time, and every send, of the receiver or of the
\* Player, is performed while its task holds the send lock.
C23_SendsHoldTheLock ==
    /\ Cardinality(Sending) <= 1
    /\ \A t \in Sending : send_lock.locked /\ send_holder = t

\* C23 witness: the Player is sending a frame while the receiver, with its
\* dummy frame, waits for the lock, after an earlier send went through.
C23_Witness ==
    /\ snd_pc["player"] = "send"
    /\ snd_kind["player"] \in {"media", "clear"}
    /\ snd_pc["receiver"] = "wait"
    /\ snd_kind["receiver"] = "dummy"
    /\ ws_sent # <<>>

\* ------------------------------------------------------------------------
\* Claims about the start event and the greeting (SpecPlayer)
\* ------------------------------------------------------------------------
\* the greeting jobs: the jobs the start event has queued (line 468)
GreetingJobs == {j \in JobIds : job_text[j] = "greeting"}

\* the Player has taken the job from its queue
Taken(j) == job_result[j] \notin {"new", "pending"}

\* after a start event one dummy frame is on the socket, and no greeting
\* frame is sent without it
DummyBeforeGreeting ==
    /\ stream_sid # None => dummy_frames = 1
    /\ \A g \in GreetingJobs : dummy_frames = 1

\* no frame of another job is sent while the greeting waits in the queue
GreetingPlayedFirst ==
    \A g \in GreetingJobs : \A j \in JobIds \ {g} :
        job_sent[j] > 0 => Taken(g)

\* a greeting that completed has exactly one clear once the Player has left
\* it, so before any frame of a later job
OneClearAfterGreeting ==
    \A g \in GreetingJobs :
        /\ job_clears[g] <= 1
        /\ job_result[g] = "completed" /\ cur.id # g => job_clears[g] = 1

\* C24: on a start event exactly one dummy frame is sent before
\* any greeting frame, the greeting is the first PlayerJob played, and when
\* it completes normally exactly one clear follows its last frame before any
\* frame of another job.
C24_DummyGreetingClear ==
    /\ DummyBeforeGreeting
    /\ GreetingPlayedFirst
    /\ OneClearAfterGreeting

\* ------------------------------------------------------------------------
\* Claims about the segmentation of the caller audio (SpecSegment, SpecVad)
\* ------------------------------------------------------------------------
\* C31: two chunks emitted one after the other with no barge-in reset between
\* them carry the same phrase_id if and only if no run of
\* DONE_SPEAKING_MS of consecutive quiet frames lies between the last speech
\* frame of the first and the first speech frame of the second, and the
\* phrase_id is rotated exactly once per such run.
C31_PhraseIdRotatesOncePerLongSilence ==
    \A k \in 2..Len(chunks) :
        ~chunk_gap[k].reset =>
            chunks[k].phrase_id - chunks[k - 1].phrase_id = chunk_gap[k].runs

\* C38: each inbound frame is in the audio of at most one emitted chunk, at
\* most once, and a chunk's audio is in arrival order: at most LEAD_IN_MS of
\* frames before the first speech frame, then the frames up to the closing one.
C38_FrameInChunkAtMostOnce ==
    /\ \A k \in 1..Len(chunk_audio) :
          \A a, b \in 1..Len(chunk_audio[k]) :
              a < b => chunk_audio[k][a].i < chunk_audio[k][b].i
    /\ \A k, m \in 1..Len(chunk_audio) :
          k # m => \A a \in 1..Len(chunk_audio[k]) : \A b \in 1..Len(chunk_audio[m]) :
                       chunk_audio[k][a].i # chunk_audio[m][b].i

\* ------------------------------------------------------------------------
\* Claims about the barge-in detector (SpecPlayer)
\* ------------------------------------------------------------------------
\* C32: the barge-in signal is raised only at the last of
\* BARGE_IN_CONSEC_FRAMES consecutive loud frames that were all received while
\* the current playback was active; frames counted during an earlier playback
\* do not count.
C32_Step ==
    ~barge_in_event /\ barge_in_event' =>
        LoudRun(TRUE, cur.id) >= BARGE_IN_CONSEC_FRAMES

C32_BargeInNeedsConsecutiveLoudFrames == [][C32_Step]_vars

\* C33: when the barge-in signal was raised while a job was playing, the
\* Player, on leaving that job, has stopped it and increments generation by
\* exactly one; generation never decreases and changes at no other time.
C33_Step ==
    /\ generation' \in {generation, generation + 1}
    /\ generation' # generation => ply_pc = "post" /\ job_barge_at[cur.id] >= 0
    /\ ply_pc = "post" /\ ply_pc' # "post" /\ job_barge_at[cur.id] >= 0 =>
           /\ job_result[cur.id] = "stopped"
           /\ generation' = generation + 1

C33_BargeInIncrementsGeneration == [][C33_Step]_vars

\* ------------------------------------------------------------------------
\* Claims about a call without inbound media (SpecNoMedia)
\* ------------------------------------------------------------------------
\* C34: every item placed on an external playback queue is moved into the
\* player queue and played, also when no media event arrives after it was
\* enqueued: after a start event and no media, the reminder and the goodbye
\* have been played when the watchdog ends the session.
C34_PromptsPlayedWithoutMedia ==
    call_ended =>
        /\ llm_playback_queue = <<>>
        /\ tts_requests_queue = <<>>
        /\ \A j \in JobIds : IsPrompt(j) => job_result[j] = "completed"

\* ------------------------------------------------------------------------
\* Claims about the TTS stream (SpecTts)
\* ------------------------------------------------------------------------
\* base64.b64decode of the digits of a frame
RECURSIVE b64decode(_)
b64decode(digits) ==
    IF Len(digits) < 4 THEN <<>>
    ELSE (IF digits[3] = 64
          THEN <<digits[1] * 4 + digits[2] \div 16>>
          ELSE IF digits[4] = 64
          THEN <<digits[1] * 4 + digits[2] \div 16,
                 (digits[2] % 16) * 16 + digits[3] \div 4>>
          ELSE <<digits[1] * 4 + digits[2] \div 16,
                 (digits[2] % 16) * 16 + digits[3] \div 4,
                 (digits[3] % 4) * 64 + digits[4]>>)
             \o b64decode(SubSeq(digits, 5, Len(digits)))

\* the bytes of a sequence of chunks or of decoded frames, in order
RECURSIVE Flat(_)
Flat(items) == IF items = <<>> THEN <<>> ELSE Head(items) \o Flat(Tail(items))

FrameBytesOf(frames) == Flat([k \in 1..Len(frames) |-> b64decode(frames[k])])

\* C35: for a stream none of whose chunks was dropped, the frames yielded are
\* of exactly FrameBytes bytes each and their concatenation is the received
\* bytes in order followed by fewer than FrameBytes padding bytes 0xFF, just
\* enough to fill the last frame (none when the length is a multiple).
C35_FramesAreTheStreamPadded ==
    tts_pc = "done" /\ tts_dropped = 0 =>
        LET n == Len(tts_accepted)
            pad == (FrameBytes - (n % FrameBytes)) % FrameBytes
        IN /\ \A k \in 1..Len(tts_frames) : Len(b64decode(tts_frames[k])) = FrameBytes
           /\ FrameBytesOf(tts_frames) = tts_accepted \o [k \in 1..pad |-> 255]

\* C35 witness: a stream of several chunks, all accepted, that ends in the
\* middle of a frame, after at least one full frame.
C35_Witness ==
    /\ tts_pc = "done"
    /\ tts_dropped = 0
    /\ Len(tts_frames) >= 2
    /\ Len(tts_accepted) % FrameBytes # 0
    /\ tts_stream = <<>>

\* C36: q never holds more than TtsQueueMax items; a chunk is dropped only
\* when q is full and leaves q as it is; q only loses its head or grows at its
\* tail; and what the consumer has taken, with what q still holds, is the
\* accepted bytes in their order.
C36_Step ==
    /\ Len(tts_q') <= TtsQueueMax
    /\ tts_dropped' # tts_dropped => Len(tts_q) = TtsQueueMax /\ tts_q' = tts_q
    /\ \/ tts_q' = tts_q
       \/ tts_q # <<>> /\ tts_q' = Tail(tts_q)
       \/ Len(tts_q') = Len(tts_q) + 1 /\ SubSeq(tts_q', 1, Len(tts_q)) = tts_q
    /\ tts_pc' # "done" =>
          FrameBytesOf(tts_frames') \o tts_buf'
              \o Flat(SelectSeq(tts_q', LAMBDA item : item # SENTINEL)) = tts_accepted'

C36_BoundedQueueDropsNewest == [][C36_Step]_vars

\* C36 witness: a chunk was dropped at a full queue and the consumer has
\* yielded the frames of the chunks that were queued before it.
C36_Witness ==
    /\ tts_dropped >= 1
    /\ tts_pc = "done"
    /\ Len(tts_frames) >= 2

\* C37: once the vendor stream has ended or failed and the loop has run the
\* callbacks of the thread, the consumer gets the sentinel: with q drained it
\* has finished.
C37_SentinelReachesConsumer ==
    /\ tts_prod_pc = "done"
    /\ tts_callbacks = <<>>
    /\ tts_q = <<>>
    /\ tts_pc # "yield"
    => tts_pc = "done"

\* C39: before the first start event (stream_sid still unset) the watchdog
\* has enqueued no reminder and no goodbye, has not entered the goodbye wait
\* and has not set call_ended, however far the clock has moved.
C39_NoWatchdogActionBeforeCall ==
    stream_sid = None =>
        /\ llm_playback_queue = <<>>
        /\ wd_pc = "poll"
        /\ ~call_ended

\* C40: in an iteration of the watchdog loop that sees an effective silence
\* of at least REMINDER_SECONDS while no reminder has been enqueued since the
\* last caller speech, the reminder is enqueued; only a missing reminder.mp3
\* excuses it, and then the last-reminder mark is the zero that the speech
\* reset it to.
C40_Step ==
    (/\ WatchdogPoll
     /\ ~call_ended
     /\ ~reminded_since_speech
     /\ silent_for >= REMINDER_SECONDS)
    => \/ reminded_since_speech'
       \/ last_reminder_effective_silence' = 0

C40_ReminderAfterSpeech == [][C40_Step]_vars

\* ------------------------------------------------------------------------
\* Specifications
\* ------------------------------------------------------------------------
AsrInit ==
    /\ PpInit0
    /\ SegInit0
    /\ RemInit0
    /\ TtsInit0
    /\ LockInit0
    /\ DummyInit0
    /\ PtInit0
    /\ VadInit0
    /\ PsfInit0
    /\ AsrInit0
    /\ ClkInit0
    /\ WdInit0
    /\ MAX_SILENCE_SECONDS = 30
    /\ DlgInit0
    /\ OutInit0
    /\ PlyInit0
    /\ PLAYBACK_CLEAR_AFTER_END = TRUE
    /\ USE_OPEN_WEBUI = TRUE
    /\ ELEVEN_STREAMING = FALSE

AsrNext ==
    \/ VadEmitChunk
    \/ VadNewPhrase
    \/ Redeliver
    \/ AsrGet
    \/ AsrFinish

SpecAsr == AsrInit /\ [][AsrNext]_vars

DialogInit ==
    /\ PpInit0
    /\ SegInit0
    /\ RemInit0
    /\ TtsInit0
    /\ LockInit0
    /\ DummyInit0
    /\ PtInit0
    /\ VadInit0
    /\ PsfInit0
    /\ AsrInit0
    /\ ClkInit0
    /\ WdInit0
    /\ MAX_SILENCE_SECONDS = 30
    /\ DlgInit0
    /\ OutInit0
    /\ PlyInit0
    /\ PLAYBACK_CLEAR_AFTER_END = TRUE
    /\ USE_OPEN_WEBUI \in BOOLEAN
    /\ ELEVEN_STREAMING \in BOOLEAN

DialogNext ==
    \/ HandlePhraseStart
    \/ LlmAttempt
    \/ HandlePhraseFinish

SpecDialog == DialogInit /\ [][DialogNext]_vars

\* The Player and the receiver of one media stream, with the producers of
\* assistant output, under either configuration of the two switches.
PlayerInit ==
    /\ PpInit0
    /\ SegInit0
    /\ RemInit0
    /\ TtsInit0
    /\ LockInit0
    /\ DummyInit0
    /\ PtInit0
    /\ VadInit0
    /\ PsfInit0
    /\ AsrInit0
    /\ ClkInit0
    /\ WdInit0
    /\ MAX_SILENCE_SECONDS = 30
    /\ DlgInit0
    /\ OutInit0
    /\ PlyInit0
    /\ USE_OPEN_WEBUI = TRUE
    /\ ELEVEN_STREAMING \in BOOLEAN
    /\ PLAYBACK_CLEAR_AFTER_END \in BOOLEAN

PlayerNext ==
    \/ RecvStart
    \/ RecvMedia
    \/ RecvStop
    \/ Teardown
    \/ DialogReply
    \/ WatchdogPrompt
    \/ PlayerWake
    \/ PlayerTop
    \/ PlayerCheck
    \/ PlayerSendDone
    \/ PlayerSendFail
    \/ PlayerPaceDone
    \/ PlayerFetched
    \/ PlayerPost
    \/ PlayerClear

SpecPlayer == PlayerInit /\ [][PlayerNext]_vars

\* One call from the start of the watchdog to the teardown: the receiver, the
\* Player, the Dialog Manager's replies, the watchdog and the clock.
CallInit ==
    /\ PpInit0
    /\ SegInit0
    /\ RemInit0
    /\ TtsInit0
    /\ LockInit0
    /\ DummyInit0
    /\ PtInit0
    /\ VadInit0
    /\ PsfInit0
    /\ AsrInit0
    /\ DlgInit0
    /\ OutInit0
    /\ PlyInit0
    /\ ClkInit0
    /\ WdInit0
    /\ USE_OPEN_WEBUI = TRUE
    /\ ELEVEN_STREAMING = FALSE
    /\ PLAYBACK_CLEAR_AFTER_END = TRUE
    /\ MAX_SILENCE_SECONDS = 30

CallNext ==
    \/ RecvStart
    \/ RecvMedia
    \/ RecvStop
    \/ Teardown
    \/ PlayerWake
    \/ PlayerTop
    \/ PlayerCheck
    \/ PlayerSendDone
    \/ PlayerSendFail
    \/ PlayerPaceDone
    \/ PlayerPost
    \/ PlayerClear
    \/ Tick
    \/ WatchdogPoll
    \/ WatchdogWaitPoll
    \/ WatchdogShutdown

SpecCall == CallInit /\ [][CallNext]_vars

\* The event loop runs every task that is ready, messages keep arriving on the
\* socket while it is open, and time passes.
PlayerStep ==
    \/ PlayerWake
    \/ PlayerTop
    \/ PlayerCheck
    \/ PlayerSendDone
    \/ PlayerSendFail
    \/ PlayerPaceDone
    \/ PlayerPost
    \/ PlayerClear

WatchdogStep == WatchdogPoll \/ WatchdogWaitPoll \/ WatchdogShutdown

CallFair ==
    /\ WF_vars(RecvMedia)
    /\ WF_vars(Teardown)
    /\ WF_vars(PlayerStep)
    /\ WF_vars(WatchdogStep)
    /\ WF_vars(Tick)

SpecCallLive == CallInit /\ [][CallNext]_vars /\ CallFair

\* The same call with the forced call-end configured off
NoLimitInit ==
    /\ PpInit0
    /\ SegInit0
    /\ RemInit0
    /\ TtsInit0
    /\ LockInit0
    /\ DummyInit0
    /\ PtInit0
    /\ VadInit0
    /\ PsfInit0
    /\ AsrInit0
    /\ DlgInit0
    /\ OutInit0
    /\ PlyInit0
    /\ ClkInit0
    /\ WdInit0
    /\ USE_OPEN_WEBUI = TRUE
    /\ ELEVEN_STREAMING = FALSE
    /\ PLAYBACK_CLEAR_AFTER_END = TRUE
    /\ MAX_SILENCE_SECONDS \in {-1, 0}

SpecNoLimit == NoLimitInit /\ [][CallNext]_vars

\* One call of _player_stream_frames, with its arguments and the state of
\* the clock and of stream_sid drawn from small sets
PacingInit ==
    /\ PpInit0
    /\ SegInit0
    /\ RemInit0
    /\ TtsInit0
    /\ LockInit0
    /\ DummyInit0
    /\ PtInit0
    /\ VadInit0
    /\ AsrInit0
    /\ DlgInit0
    /\ OutInit0
    /\ \E sid \in {None, "S"} : PlyInitSid(sid)
    /\ ClkInit0
    /\ WdInit0
    /\ USE_OPEN_WEBUI = TRUE
    /\ ELEVEN_STREAMING \in BOOLEAN
    /\ PLAYBACK_CLEAR_AFTER_END = TRUE
    /\ MAX_SILENCE_SECONDS = 30
    /\ mono_ms \in {0, 1}
    /\ psf_pc = "idle"
    /\ psf_frames \in UNION {[1..n -> Payloads] : n \in 0..MaxPaceFrames}
    /\ psf_is_list = ~ELEVEN_STREAMING
    /\ psf_job_generation \in {0, 1}
    /\ psf_rest = psf_frames
    /\ psf_base = 0
    /\ psf_i = 0
    /\ psf_frame = None
    /\ psf_from = 0
    /\ psf_sent = <<>>
    /\ psf_completed = FALSE

\* The receiver with its VAD and the Player, which plays the greeting
VadInit ==
    /\ PpInit0
    /\ SegInit0
    /\ RemInit0
    /\ TtsInit0
    /\ LockInit0
    /\ DummyInit0
    /\ PtInit0
    /\ VadInit0
    /\ PsfInit0
    /\ AsrInit0
    /\ DlgInit0
    /\ OutInit0
    /\ PlyInit0
    /\ ClkInit0
    /\ WdInit0
    /\ USE_OPEN_WEBUI = TRUE
    /\ ELEVEN_STREAMING = FALSE
    /\ PLAYBACK_CLEAR_AFTER_END = TRUE
    /\ MAX_SILENCE_SECONDS = 30

VadNext ==
    \/ RecvStart
    \/ VadMedia
    \/ \E kind \in MalformedKinds : RecvMalformed(kind)
    \/ RecvStop
    \/ Teardown
    \/ PlayerWake
    \/ PlayerTop
    \/ PlayerCheck
    \/ PlayerSendDone
    \/ PlayerPaceDone
    \/ PlayerPost
    \/ PlayerClear

SpecVad == VadInit /\ [][VadNext]_vars

\* One call of phrase_text on a phrase whose chunks have distinct indices
PhraseTextInit ==
    /\ PpInit0
    /\ SegInit0
    /\ RemInit0
    /\ TtsInit0
    /\ LockInit0
    /\ DummyInit0
    /\ VadInit0
    /\ PsfInit0
    /\ AsrInit0
    /\ DlgInit0
    /\ OutInit0
    /\ PlyInit0
    /\ ClkInit0
    /\ WdInit0
    /\ USE_OPEN_WEBUI = TRUE
    /\ ELEVEN_STREAMING = FALSE
    /\ PLAYBACK_CLEAR_AFTER_END = TRUE
    /\ MAX_SILENCE_SECONDS = 30
    /\ pt_chunks \in UNION {
          {cs \in [1..n -> [chunk_index : 1..MaxTextChunks, transcription : Transcriptions]] :
              \A a, b \in 1..n : a # b => cs[a].chunk_index # cs[b].chunk_index}
          : n \in 0..MaxTextChunks}
    /\ pt_pc = "call"
    /\ pt_result = <<>>

PhraseTextNext == PhraseTextCall

SpecPhraseText == PhraseTextInit /\ [][PhraseTextNext]_vars

\* The post-processing applied to a reply and then to its own output
PostprocessInit ==
    /\ PtInit0
    /\ SegInit0
    /\ RemInit0
    /\ TtsInit0
    /\ LockInit0
    /\ DummyInit0
    /\ VadInit0
    /\ PsfInit0
    /\ AsrInit0
    /\ DlgInit0
    /\ OutInit0
    /\ PlyInit0
    /\ ClkInit0
    /\ WdInit0
    /\ USE_OPEN_WEBUI = TRUE
    /\ ELEVEN_STREAMING = FALSE
    /\ PLAYBACK_CLEAR_AFTER_END = TRUE
    /\ MAX_SILENCE_SECONDS = 30
    /\ pp_text \in UNION {[1..n -> Chars] : n \in 0..MaxTextLen}
    /\ pp_pc = "in"
    /\ pp_once = <<>>
    /\ pp_twice = <<>>

PostprocessNext == PostprocessOnce \/ PostprocessTwice

SpecPostprocess == PostprocessInit /\ [][PostprocessNext]_vars

PacingNext ==
    \/ PsfEnter
    \/ PsfNext
    \/ PsfSent
    \/ PsfSendFail
    \/ PsfWoke
    \/ PsfInterrupt

SpecPacing == PacingInit /\ [][PacingNext]_vars

SendLockInit ==
    /\ PtInit0
    /\ PpInit0
    /\ SegInit0
    /\ RemInit0
    /\ TtsInit0
    /\ VadInit0
    /\ PsfInit0
    /\ AsrInit0
    /\ DlgInit0
    /\ OutInit0
    /\ PlyInit0
    /\ ClkInit0
    /\ WdInit0
    /\ LockInit0
    /\ DummyInit0
    /\ USE_OPEN_WEBUI = TRUE
    /\ ELEVEN_STREAMING = FALSE
    /\ PLAYBACK_CLEAR_AFTER_END = TRUE
    /\ MAX_SILENCE_SECONDS = 30

SendLockNext ==
    \/ \E t \in Tasks : \E kind \in SendKinds(t) : SendEnter(t, kind)
    \/ \E t \in Tasks : SendLocked(t)
    \/ \E t \in Tasks : \E ok \in BOOLEAN : SendLeave(t, ok)
    \/ SendReceiverStop
    \/ SendPlayerCancel

SpecSendLock == SendLockInit /\ [][SendLockNext]_vars

SegmentNext ==
    \/ RecvStart
    \/ VadMediaUpTo(MaxSegmentFrames, {"quiet", "speech"})
    \/ RecvStop

SpecSegment == VadInit /\ [][SegmentNext]_vars

\* a call in which the carrier sends the start event and no media
NoMediaNext ==
    \/ RecvStart
    \/ Teardown
    \/ PlayerWake
    \/ PlayerTop
    \/ PlayerCheck
    \/ PlayerSendDone
    \/ PlayerPaceDone
    \/ PlayerPost
    \/ PlayerClear
    \/ Tick
    \/ WatchdogPoll
    \/ WatchdogWaitPoll
    \/ WatchdogShutdown

SpecNoMedia == CallInit /\ [][NoMediaNext]_vars

TtsInit ==
    /\ PpInit0
    /\ SegInit0
    /\ RemInit0
    /\ LockInit0
    /\ DummyInit0
    /\ PtInit0
    /\ VadInit0
    /\ PsfInit0
    /\ AsrInit0
    /\ DlgInit0
    /\ OutInit0
    /\ PlyInit0
    /\ ClkInit0
    /\ WdInit0
    /\ USE_OPEN_WEBUI = TRUE
    /\ ELEVEN_STREAMING = TRUE
    /\ PLAYBACK_CLEAR_AFTER_END = TRUE
    /\ MAX_SILENCE_SECONDS = 30
    /\ \E sizes \in UNION {[1..n -> 0..MaxChunkBytes] : n \in 0..MaxTtsChunks} :
           tts_stream = Chunked(sizes, 0)
    /\ tts_prod_pc = "run"
    /\ tts_callbacks = <<>>
    /\ tts_q = <<>>
    /\ tts_buf = <<>>
    /\ tts_pc = "get"
    /\ tts_frames = <<>>
    /\ tts_accepted = <<>>
    /\ tts_dropped = 0

TtsNext ==
    \/ TtsProduce
    \/ \E failed \in BOOLEAN : TtsProducerEnd(failed)
    \/ TtsCallback
    \/ TtsGet
    \/ TtsYield

SpecTts == TtsInit /\ [][TtsNext]_vars

\* The watchdog polling at every sleep while the caller speaks now and then
ReminderNext ==
    \/ RecvStart
    \/ RecvMedia
    \/ PollSleep
    \/ WatchdogPoll
    \/ WatchdogWaitPoll
    \/ WatchdogShutdown

SpecReminder == CallInit /\ [][ReminderNext]_vars

====
